---------------------------- MODULE Spec2Model ----------------------------
(***************************************************************************)
(* Model of the JSON flattening engine (src/src/json_flattener.py).        *)
(*                                                                         *)
(* Text is a sequence of one-character strings, so that split, strip,      *)
(* replace, prefix/suffix tests, the index-suffix pattern and the          *)
(* code-point order used by sorted() are computed, not assumed.            *)
(*                                                                         *)
(* A JSON value is a tagged record:                                        *)
(*   [tag |-> "null"]            [tag |-> "bool", b |-> BOOLEAN]           *)
(*   [tag |-> "num", n |-> Int]  [tag |-> "str", s |-> text]               *)
(*   [tag |-> "arr", items |-> sequence of values]                         *)
(*   [tag |-> "obj", pairs |-> sequence of <<key, value>>, keys distinct,  *)
(*                             in insertion order (a Python dict)]         *)
(* A flat row (Dict[str, Any]) is an object in the same representation.    *)
(***************************************************************************)
EXTENDS Integers, Sequences, FiniteSets, TLC

--------------------------------------------------------------------------
(* Python str primitives                                                   *)

\* ord(c) for the characters of the model's alphabet
Ord(c) ==
  CASE c = " " -> 32 [] c = "\"" -> 34 [] c = "(" -> 40 [] c = ")" -> 41
    [] c = "," -> 44 [] c = "-" -> 45 [] c = "/" -> 47
    [] c = "0" -> 48 [] c = "1" -> 49 [] c = "2" -> 50 [] c = "3" -> 51
    [] c = "4" -> 52 [] c = "5" -> 53 [] c = "6" -> 54 [] c = "7" -> 55
    [] c = "8" -> 56 [] c = "9" -> 57 [] c = ":" -> 58
    [] c = "F" -> 70 [] c = "N" -> 78 [] c = "T" -> 84
    [] c = "[" -> 91 [] c = "]" -> 93 [] c = "_" -> 95
    [] c = "a" -> 97 [] c = "b" -> 98 [] c = "c" -> 99 [] c = "d" -> 100
    [] c = "e" -> 101 [] c = "f" -> 102 [] c = "i" -> 105 [] c = "k" -> 107
    [] c = "l" -> 108 [] c = "m" -> 109 [] c = "n" -> 110 [] c = "o" -> 111
    [] c = "r" -> 114 [] c = "s" -> 115 [] c = "t" -> 116 [] c = "u" -> 117
    [] c = "v" -> 118 [] c = "w" -> 119 [] c = "x" -> 120 [] c = "y" -> 121
    [] c = "z" -> 122 [] c = "{" -> 123 [] c = "}" -> 125

Digits == {"0", "1", "2", "3", "4", "5", "6", "7", "8", "9"}

\* str < str: lexicographic by code point, a proper prefix is smaller
RECURSIVE StrLess(_, _)
StrLess(s, t) ==
  IF t = <<>> THEN FALSE
  ELSE IF s = <<>> THEN TRUE
  ELSE IF Ord(Head(s)) # Ord(Head(t)) THEN Ord(Head(s)) < Ord(Head(t))
  ELSE StrLess(Tail(s), Tail(t))

\* s.startswith(p)
StartsWith(s, p) ==
  Len(p) <= Len(s) /\ SubSeq(s, 1, Len(p)) = p

\* s.endswith(p)
EndsWith(s, p) ==
  Len(p) <= Len(s) /\ SubSeq(s, Len(s) - Len(p) + 1, Len(s)) = p

\* p in s (substring test)
Contains(s, p) ==
  \E i \in 1..(Len(s) - Len(p) + 1) : SubSeq(s, i, i + Len(p) - 1) = p

\* s.strip(): the alphabet's only whitespace is the space
RECURSIVE LStrip(_)
LStrip(s) ==
  IF s # <<>> /\ Head(s) = " " THEN LStrip(Tail(s)) ELSE s

RECURSIVE RStrip(_)
RStrip(s) ==
  IF s # <<>> /\ s[Len(s)] = " " THEN RStrip(SubSeq(s, 1, Len(s) - 1)) ELSE s

Strip(s) == RStrip(LStrip(s))

\* s.replace(old, new): leftmost non-overlapping occurrences; an empty old
\* matches before every character and at the end
RECURSIVE ReplaceEmpty(_, _)
ReplaceEmpty(s, new) ==
  IF s = <<>> THEN new ELSE new \o <<Head(s)>> \o ReplaceEmpty(Tail(s), new)

RECURSIVE ReplaceNonEmpty(_, _, _)
ReplaceNonEmpty(s, old, new) ==
  IF Len(s) < Len(old) THEN s
  ELSE IF StartsWith(s, old)
       THEN new \o ReplaceNonEmpty(SubSeq(s, Len(old) + 1, Len(s)), old, new)
       ELSE <<Head(s)>> \o ReplaceNonEmpty(Tail(s), old, new)

Replace(s, old, new) ==
  IF old = <<>> THEN ReplaceEmpty(s, new) ELSE ReplaceNonEmpty(s, old, new)

\* s.split(sep) for a non-empty sep: the list of parts
RECURSIVE SplitFrom(_, _, _)
SplitFrom(s, sep, cur) ==
  IF Len(s) < Len(sep) THEN <<cur \o s>>
  ELSE IF StartsWith(s, sep)
       THEN <<cur>> \o SplitFrom(SubSeq(s, Len(sep) + 1, Len(s)), sep, <<>>)
       ELSE SplitFrom(Tail(s), sep, cur \o <<Head(s)>>)

Split(s, sep) == SplitFrom(s, sep, <<>>)

\* str(n) for an int
RECURSIVE NatToStr(_)
NatToStr(n) ==
  LET d == <<"0", "1", "2", "3", "4", "5", "6", "7", "8", "9">>[(n % 10) + 1]
  IN IF n < 10 THEN <<d>> ELSE NatToStr(n \div 10) \o <<d>>

IntToStr(n) == IF n < 0 THEN <<"-">> \o NatToStr(0 - n) ELSE NatToStr(n)

\* int(s) for a string of decimal digits
RECURSIVE StrToNat(_)
StrToNat(s) ==
  IF s = <<>> THEN 0
  ELSE 10 * StrToNat(SubSeq(s, 1, Len(s) - 1)) + (Ord(s[Len(s)]) - 48)

\* sep.join(parts)
RECURSIVE Join(_, _)
Join(sep, parts) ==
  IF parts = <<>> THEN <<>>
  ELSE IF Len(parts) = 1 THEN parts[1]
  ELSE parts[1] \o sep \o Join(sep, Tail(parts))

--------------------------------------------------------------------------
(* JSON values and dicts                                                   *)

JNull == [tag |-> "null"]
JBool(b) == [tag |-> "bool", b |-> b]
JNum(n) == [tag |-> "num", n |-> n]
JStr(s) == [tag |-> "str", s |-> s]
JArr(items) == [tag |-> "arr", items |-> items]
JObj(pairs) == [tag |-> "obj", pairs |-> pairs]

IsDict(v) == v.tag = "obj"
IsList(v) == v.tag = "arr"
\* type(x) in (str, int, float, bool) or x is None
IsScalarOrNone(v) == v.tag \in {"null", "bool", "num", "str"}

\* the keys of a dict
DictKeys(d) == {d.pairs[i][1] : i \in 1..Len(d.pairs)}
HasKey(d, k) == \E i \in 1..Len(d.pairs) : d.pairs[i][1] = k
\* d[k] for a key that is present
DictGet(d, k) ==
  d.pairs[CHOOSE i \in 1..Len(d.pairs) : d.pairs[i][1] = k][2]
\* d[k] = v: an existing key keeps its position, a new key is appended
DictSet(d, k, v) ==
  IF HasKey(d, k)
  THEN JObj([i \in 1..Len(d.pairs) |->
              IF d.pairs[i][1] = k THEN <<k, v>> ELSE d.pairs[i]])
  ELSE JObj(Append(d.pairs, <<k, v>>))

EmptyDict == JObj(<<>>)

--------------------------------------------------------------------------
(* json_flattener.py                                                       *)

DEFAULT_PATH_SEP == <<" ", "-", " ">>

\* _ARRAY_INDEX_SUFFIX_RE.match(col_name): ^(.+) - \((\d+)\)$
\* The position of the " - (" that starts the suffix, or 0 when the name
\* does not match: the name ends with ")", one or more digits precede it,
\* " - (" precedes the digits and at least one character precedes that.
ArrayIndexSuffixAt(col_name) ==
  LET n == Len(col_name)
      starts == {i \in 2..(n - 5) :
                   /\ SubSeq(col_name, i, i + 3) = <<" ", "-", " ", "(">>
                   /\ \A j \in (i + 4)..(n - 1) : col_name[j] \in Digits}
  IN IF n >= 7 /\ col_name[n] = ")" /\ starts # {}
     THEN CHOOSE i \in starts : TRUE
     ELSE 0

\* ColumnSortKey without the group: all (1) columns of all arrays first
ColumnSortKeyMutNoGroup(col_name) ==
  LET at == ArrayIndexSuffixAt(col_name)
  IN IF at > 0
     THEN << <<>>, 1,
             StrToNat(SubSeq(col_name, at + 4, Len(col_name) - 1)),
             SubSeq(col_name, 1, at - 1) >>
     ELSE << <<>>, 0, 0, col_name >>

\* _column_sort_key(col_name): <<group_key, 0 or 1, index, name>>
ColumnSortKey(col_name) ==
  LET parts == Split(col_name, <<" ", "-", " ">>)
      group_key == parts[1]
      at == ArrayIndexSuffixAt(col_name)
  IN IF at > 0
     THEN << group_key, 1,
             StrToNat(SubSeq(col_name, at + 4, Len(col_name) - 1)),
             SubSeq(col_name, 1, at - 1) >>
     ELSE << group_key, 0, 0, col_name >>

\* tuple comparison of two sort keys
KeyLess(a, b) ==
  IF a[1] # b[1] THEN StrLess(a[1], b[1])
  ELSE IF a[2] # b[2] THEN a[2] < b[2]
  ELSE IF a[3] # b[3] THEN a[3] < b[3]
  ELSE StrLess(a[4], b[4])

\* list.sort(key=_column_sort_key) / sorted(list, key=...): a stable sort
RECURSIVE InsertSorted(_, _)
InsertSorted(sorted, c) ==
  IF sorted = <<>> THEN <<c>>
  ELSE IF KeyLess(ColumnSortKey(c), ColumnSortKey(Head(sorted)))
       THEN <<c>> \o sorted
       ELSE <<Head(sorted)>> \o InsertSorted(Tail(sorted), c)

RECURSIVE SortedByKey(_)
SortedByKey(cols) ==
  IF cols = <<>> THEN <<>>
  ELSE InsertSorted(SortedByKey(SubSeq(cols, 1, Len(cols) - 1)), cols[Len(cols)])

\* some iteration order of a set (a Python set iterates in no defined order;
\* sort keys of distinct names differ here, so the order does not show)
RECURSIVE SetToSeq(_)
SetToSeq(S) ==
  IF S = {} THEN <<>>
  ELSE LET x == CHOOSE y \in S : TRUE IN <<x>> \o SetToSeq(S \ {x})

\* str(x) of a scalar, as ", ".join(str(x) for x in obj) renders it
PyStr(v) ==
  CASE v.tag = "null" -> <<"N", "o", "n", "e">>
    [] v.tag = "bool" -> IF v.b THEN <<"T", "r", "u", "e">>
                                ELSE <<"F", "a", "l", "s", "e">>
    [] v.tag = "num" -> IntToStr(v.n)
    [] v.tag = "str" -> v.s

\* str(v).lower() of a bool
BoolLower(b) == IF b THEN <<"t", "r", "u", "e">> ELSE <<"f", "a", "l", "s", "e">>

\* json.dumps(obj, ensure_ascii=False) with the default separators
\* (the alphabet has no character that a JSON string escapes)
RECURSIVE JsonDumps(_)
RECURSIVE JsonDumpsItems(_)
RECURSIVE JsonDumpsPairs(_)
JsonDumps(v) ==
  CASE v.tag = "null" -> <<"n", "u", "l", "l">>
    [] v.tag = "bool" -> BoolLower(v.b)
    [] v.tag = "num" -> IntToStr(v.n)
    [] v.tag = "str" -> <<"\"">> \o v.s \o <<"\"">>
    [] v.tag = "arr" -> <<"[">> \o JsonDumpsItems(v.items) \o <<"]">>
    [] v.tag = "obj" -> <<"{">> \o JsonDumpsPairs(v.pairs) \o <<"}">>

JsonDumpsItems(items) ==
  IF items = <<>> THEN <<>>
  ELSE IF Len(items) = 1 THEN JsonDumps(items[1])
  ELSE JsonDumps(items[1]) \o <<",", " ">> \o JsonDumpsItems(Tail(items))

JsonDumpsPairs(pairs) ==
  LET one == <<"\"">> \o pairs[1][1] \o <<"\"", ":", " ">> \o JsonDumps(pairs[1][2])
  IN IF pairs = <<>> THEN <<>>
     ELSE IF Len(pairs) = 1 THEN one
     ELSE one \o <<",", " ">> \o JsonDumpsPairs(Tail(pairs))

\* the rule loop of the array branch: some rule with a non-empty path and
\* keys, k among its keys, and prefix ending with or containing the path
SkipInPathArray(exclude_in_path, prefix, k) ==
  \E r \in 1..Len(exclude_in_path) :
    LET path_part == Strip(exclude_in_path[r].path)
        keys == exclude_in_path[r].keys
    IN /\ path_part # <<>>
       /\ keys # <<>>
       /\ \E j \in 1..Len(keys) : keys[j] = k
       /\ (EndsWith(prefix, path_part) \/ Contains(prefix, path_part))

\* the rule loop of the object branch: new_prefix ending with the path counts too
SkipInPathObject(exclude_in_path, prefix, new_prefix, k) ==
  \E r \in 1..Len(exclude_in_path) :
    LET path_part == Strip(exclude_in_path[r].path)
        keys == exclude_in_path[r].keys
    IN /\ path_part # <<>>
       /\ keys # <<>>
       /\ \E j \in 1..Len(keys) : keys[j] = k
       /\ \/ EndsWith(prefix, path_part)
          \/ Contains(prefix, path_part)
          \/ EndsWith(new_prefix, path_part)

\* KeyPart without the final strip()
KeyPartMutNoStrip(k, sep) == Replace(k, Strip(sep), <<"_">>)

\* KeyPart without the replacement of the stripped separator
KeyPartMutNoReplace(k, sep) == Strip(k)

\* str(k).replace(sep.strip(), "_").strip()
KeyPart(k, sep) == Strip(Replace(k, Strip(sep), <<"_">>))

\* ScalarCell storing a bool as it is
ScalarCellMutRawBool(v) ==
  CASE v.tag = "null" -> JStr(<<>>)
    [] v.tag = "bool" -> v
    [] OTHER -> v

ScalarCell(v) ==
  CASE v.tag = "null" -> JStr(<<>>)
    [] v.tag = "bool" -> JStr(BoolLower(v.b))
    [] OTHER -> v

\* IdxSuffix with the 0-based index
IdxSuffixMutZeroBased(i) == <<" ", "-", " ", "(">> \o IntToStr(i - 1) \o <<")">>

\* f" - ({idx + 1})" for the 0-based idx = i - 1
IdxSuffix(i) == <<" ", "-", " ", "(">> \o IntToStr(i) \o <<")">>

RECURSIVE FlattenOne(_, _, _, _, _, _)
RECURSIVE FlattenObjectPairs(_, _, _, _, _, _)
RECURSIVE FlattenArrayItems(_, _, _, _, _, _, _)
RECURSIVE FlattenItemPairs(_, _, _, _, _, _, _)

\* _flatten_one(obj, prefix, sep, out, exclude_keys, exclude_keys_in_path):
\* the dict out after the call
FlattenOne(obj, prefix, sep, out, exclude, exclude_in_path) ==
  IF prefix \in exclude THEN out
  ELSE IF IsScalarOrNone(obj) THEN DictSet(out, prefix, ScalarCell(obj))
  ELSE IF IsList(obj) THEN
    IF obj.items = <<>> THEN DictSet(out, prefix, JStr(<<>>))
    ELSE IF \A i \in 1..Len(obj.items) : IsScalarOrNone(obj.items[i])
      THEN DictSet(out, prefix,
                   JStr(Join(<<",", " ">>,
                             [i \in 1..Len(obj.items) |-> PyStr(obj.items[i])])))
    ELSE IF \A i \in 1..Len(obj.items) : IsDict(obj.items[i])
      THEN FlattenArrayItems(obj.items, 1, prefix, sep, out, exclude, exclude_in_path)
    ELSE DictSet(out, prefix, JStr(JsonDumps(obj)))
  ELSE FlattenObjectPairs(obj.pairs, prefix, sep, out, exclude, exclude_in_path)

\* for k, v in obj.items(): ... (the dict branch), over the pairs still to visit
FlattenObjectPairs(pairs, prefix, sep, out, exclude, exclude_in_path) ==
  IF pairs = <<>> THEN out
  ELSE
    LET k == pairs[1][1]
        v == pairs[1][2]
        part == KeyPart(k, sep)
        new_prefix == IF prefix # <<>> THEN prefix \o sep \o part ELSE part
        out1 == IF \/ k \in exclude
                   \/ new_prefix \in exclude
                   \/ SkipInPathObject(exclude_in_path, prefix, new_prefix, k)
                THEN out
                ELSE FlattenOne(v, new_prefix, sep, out, exclude, exclude_in_path)
    IN FlattenObjectPairs(Tail(pairs), prefix, sep, out1, exclude, exclude_in_path)

\* for idx, item in enumerate(obj): ... (the array-of-objects branch), from
\* the 1-based position i
FlattenArrayItems(items, i, prefix, sep, out, exclude, exclude_in_path) ==
  IF i > Len(items) THEN out
  ELSE
    LET out1 == IF ~IsDict(items[i]) THEN out
                ELSE FlattenItemPairs(items[i].pairs, i, prefix, sep, out,
                                      exclude, exclude_in_path)
    IN FlattenArrayItems(items, i + 1, prefix, sep, out1, exclude, exclude_in_path)

\* for k, v in item.items(): ... of element i of an array of objects
FlattenItemPairs(pairs, i, prefix, sep, out, exclude, exclude_in_path) ==
  IF pairs = <<>> THEN out
  ELSE
    LET k == pairs[1][1]
        v == pairs[1][2]
        part == KeyPart(k, sep)
        col_name == IF prefix # <<>>
                    THEN prefix \o sep \o part \o IdxSuffix(i)
                    ELSE part \o IdxSuffix(i)
        out1 == IF \/ k \in exclude
                   \/ SkipInPathArray(exclude_in_path, prefix, k)
                   \/ col_name \in exclude
                THEN out
                ELSE IF IsScalarOrNone(v)
                     THEN DictSet(out, col_name, ScalarCell(v))
                     ELSE FlattenOne(v, col_name, sep, out, exclude, exclude_in_path)
    IN FlattenItemPairs(Tail(pairs), i, prefix, sep, out1, exclude, exclude_in_path)

\* for key, value in row.items(): ... of flatten_row
RECURSIVE FlattenRowPairs(_, _, _, _, _)
FlattenRowPairs(pairs, path_sep, flat, exclude, exclude_in_path) ==
  IF pairs = <<>> THEN flat
  ELSE
    LET key == pairs[1][1]
        value == pairs[1][2]
        new_prefix == KeyPart(key, path_sep)
        flat1 == IF key \in exclude THEN flat
                 ELSE FlattenOne(value, new_prefix, path_sep, flat,
                                 exclude, exclude_in_path)
    IN FlattenRowPairs(Tail(pairs), path_sep, flat1, exclude, exclude_in_path)

\* flatten_row(row, path_sep, exclude_keys, exclude_keys_in_path)
FlattenRow(row, path_sep, exclude, exclude_in_path) ==
  FlattenRowPairs(row.pairs, path_sep, EmptyDict, exclude, exclude_in_path)

\* _drill_into(row, path_start): the dict reached, or [tag |-> "none"] for None
PyNone == [tag |-> "none"]
\* an optional list argument that is given
PyList(items) == [tag |-> "list", items |-> items]

RECURSIVE DrillInto(_, _)
DrillInto(current, path_start) ==
  IF path_start = <<>>
  THEN IF IsDict(current) THEN current ELSE PyNone
  ELSE IF ~IsDict(current) \/ ~HasKey(current, Head(path_start)) THEN PyNone
  ELSE DrillInto(DictGet(current, Head(path_start)), Tail(path_start))

\* extract_rows(data) of a list: dicts as they are, anything else wrapped
WrapKey == <<"_">>

\* RowsOfList that keeps only the dicts
RowsOfListMutDropScalars(items) ==
  SelectSeq(items, IsDict)

RowsOfList(items) ==
  [i \in 1..Len(items) |->
     IF IsDict(items[i]) THEN items[i] ELSE JObj(<< <<WrapKey, items[i]>> >>)]

PriorityKeys == << <<"r", "e", "s", "u", "l", "t", "s">>, <<"d", "a", "t", "a">>,
                   <<"i", "t", "e", "m", "s">>, <<"r", "o", "w", "s">> >>

\* ExtractRows taking the first priority key in the dict's own key order
ExtractRowsMutDictOrder(data) ==
  IF IsList(data) THEN RowsOfList(data.items)
  ELSE IF IsDict(data) THEN
    LET prio == {i \in 1..Len(data.pairs) :
                   /\ \E p \in 1..Len(PriorityKeys) : PriorityKeys[p] = data.pairs[i][1]
                   /\ IsList(data.pairs[i][2])}
        objlists == {i \in 1..Len(data.pairs) :
                       /\ IsList(data.pairs[i][2])
                       /\ data.pairs[i][2].items # <<>>
                       /\ IsDict(data.pairs[i][2].items[1])}
        Min(S) == CHOOSE x \in S : \A y \in S : x <= y
    IN IF Len(data.pairs) = 1 /\ IsList(data.pairs[1][2])
       THEN RowsOfList(data.pairs[1][2].items)
       ELSE IF prio # {}
       THEN RowsOfList(data.pairs[Min(prio)][2].items)
       ELSE IF objlists # {}
       THEN RowsOfList(data.pairs[Min(objlists)][2].items)
       ELSE <<data>>
  ELSE << JObj(<< <<WrapKey, data>> >>) >>

\* extract_rows(data)
ExtractRows(data) ==
  IF IsList(data) THEN RowsOfList(data.items)
  ELSE IF IsDict(data) THEN
    LET prio == {p \in 1..Len(PriorityKeys) :
                   HasKey(data, PriorityKeys[p]) /\ IsList(DictGet(data, PriorityKeys[p]))}
        objlists == {i \in 1..Len(data.pairs) :
                       /\ IsList(data.pairs[i][2])
                       /\ data.pairs[i][2].items # <<>>
                       /\ IsDict(data.pairs[i][2].items[1])}
        Min(S) == CHOOSE x \in S : \A y \in S : x <= y
    IN IF Len(data.pairs) = 1 /\ IsList(data.pairs[1][2])
       THEN RowsOfList(data.pairs[1][2].items)
       ELSE IF prio # {}
       THEN RowsOfList(DictGet(data, PriorityKeys[Min(prio)]).items)
       ELSE IF objlists # {}
       THEN RowsOfList(data.pairs[Min(objlists)][2].items)
       ELSE <<data>>
  ELSE << JObj(<< <<WrapKey, data>> >>) >>

--------------------------------------------------------------------------
(* flatten_json_data as a state machine: one action per stage of the call *)

VARIABLES
  data,                  \* the parsed JSON document
  path_sep,              \* text
  path_start,            \* sequence of keys, <<>> when absent
  path_starts,           \* sequence of key sequences, <<>> when absent
  exclude_keys,          \* sequence of texts, <<>> when absent
  exclude_keys_in_path,  \* sequence of [path |-> text, keys |-> sequence of texts]
  include_only_keys,     \* PyList(sequence of texts), or PyNone
  column_order,          \* PyList(sequence of texts), or PyNone
  pc,                    \* the stage about to run
  rows_original,         \* the extracted rows
  rows_raw,              \* the rows to flatten (drilled once past "drill")
  all_flat,              \* the flat rows built so far
  all_keys,              \* the set of their column names
  columns                \* the column list

\* write_xlsx (xlsx_exporter.py)
VARIABLES
  sheets_data,           \* sequence of [name, rows, columns]
  column_formats,        \* column_formats_per_sheet: per sheet, pairs <<column, number_format>>
  default_formats,       \* default_formats_per_sheet: per sheet, [number_format, wrap_text, header_bold]
  wpc,                   \* the stage of write_xlsx about to run
  all_strings,           \* the texts collected for the shared-string table
  unique,                \* the shared-string table
  styles,                \* the indices of the cell styles
  sheet_xmls,            \* the worksheets built so far
  out_file,              \* what the target path holds
  excel_col              \* the locals of the running _excel_col call: [i, result]

\* main (main.py)
VARIABLES
  mpc,                   \* the position of main
  to_process,            \* the files to process: their indices in config.files
  max_workers,           \* the pool size chosen by main
  started,               \* the tasks handed to a worker
  running,               \* the tasks a worker is processing
  slots,                 \* the results the workers reported: [i, obj], in completion order
  results,               \* the list main collected
  failing,               \* the files whose processing raises: their indices in config.files
  config,                \* the configuration main loaded: files, and the sheet options of xlsx
  out_dir,               \* the CSV files present in the output folder: their names
  freeze_cell_per_sheet  \* the freeze cells main passes to write_xlsx, one per sheet

inputs == <<data, path_sep, path_start, path_starts, exclude_keys,
            exclude_keys_in_path, include_only_keys, column_order>>
flattener == <<data, path_sep, path_start, path_starts, exclude_keys,
               exclude_keys_in_path, include_only_keys, column_order,
               pc, rows_original, rows_raw, all_flat, all_keys, columns>>
writer == <<sheets_data, column_formats, default_formats, wpc, all_strings,
            unique, styles, sheet_xmls, out_file, excel_col>>
runner == <<mpc, to_process, max_workers, started, running, slots, results, failing,
           config, out_dir, freeze_cell_per_sheet>>
vars == <<data, path_sep, path_start, path_starts, exclude_keys,
          exclude_keys_in_path, include_only_keys, column_order,
          pc, rows_original, rows_raw, all_flat, all_keys, columns,
          sheets_data, column_formats, default_formats, wpc, all_strings,
          unique, styles, sheet_xmls, out_file, excel_col,
          mpc, to_process, max_workers, started, running, slots, results, failing,
          config, out_dir, freeze_cell_per_sheet>>

NoStyles == [integer |-> 0, date |-> 0, header |-> 0, data |-> 0]
\* the target path before write_xlsx has touched it
Untouched == [state |-> "untouched", entries |-> <<>>]

\* no call of _excel_col is running
NoCall == [i |-> 0, result |-> <<>>]

\* write_xlsx has not been called
WriterIdle ==
  /\ sheets_data = <<>> /\ column_formats = <<>> /\ default_formats = <<>>
  /\ wpc = "idle"
  /\ all_strings = <<>> /\ unique = <<>> /\ styles = NoStyles
  /\ sheet_xmls = <<>> /\ out_file = Untouched
  /\ excel_col = NoCall

\* main is not running
\* a configuration: config.files, xlsx.sheets, xlsx.freeze_cell,
\* xlsx.freeze_first_row and xlsx.freeze_pane_per_sheet
Config(files, sheets, freeze_cell, freeze_first_row, panes) ==
  [files |-> files, sheets |-> sheets, freeze_cell |-> freeze_cell,
   freeze_first_row |-> freeze_first_row, freeze_pane_per_sheet |-> panes]

NoConfig == Config(<<>>, <<>>, <<>>, TRUE, <<>>)

RunnerIdle ==
  /\ mpc = "idle" /\ to_process = <<>> /\ max_workers = 1
  /\ started = {} /\ running = {} /\ slots = <<>> /\ results = <<>>
  /\ failing = {}
  /\ config = NoConfig /\ out_dir = {} /\ freeze_cell_per_sheet = <<>>

\* bool(x) of an optional list
Truthy(x) == x.tag = "list" /\ x.items # <<>>

\* main_path, extra_paths (lines 243-248)
main_path == IF Len(path_starts) > 0 THEN path_starts[1] ELSE path_start
extra_paths == IF Len(path_starts) > 1 THEN Tail(path_starts) ELSE <<>>
\* exclude_set, include_set (lines 250-253)
exclude_set == {exclude_keys[j] : j \in 1..Len(exclude_keys)}
include_set == {include_only_keys.items[j] : j \in 1..Len(include_only_keys.items)}

\* the state after the call's arguments are bound
InitFrom(Docs, Seps, Starts, StartLists, Excludes, Rules, Includes, Orders) ==
  /\ data \in Docs
  /\ path_sep \in Seps
  /\ path_start \in Starts
  /\ path_starts \in StartLists
  /\ exclude_keys \in Excludes
  /\ exclude_keys_in_path \in Rules
  /\ include_only_keys \in Includes
  /\ column_order \in Orders
  /\ pc = "extract"
  /\ rows_original = <<>>
  /\ rows_raw = <<>>
  /\ all_flat = <<>>
  /\ all_keys = {}
  /\ columns = <<>>
  /\ WriterIdle
  /\ RunnerIdle

\* rows_raw = extract_rows(data); rows_original = list(rows_raw)  (lines 241-257)
Extract ==
  /\ pc = "extract"
  /\ rows_raw' = ExtractRows(data)
  /\ rows_original' = rows_raw'
  /\ pc' = "drill"
  /\ UNCHANGED <<writer, runner, inputs, all_flat, all_keys, columns>>

\* DrilledRows leaving out the rows the chain does not resolve in
DrilledRowsMutDropUnresolved(rows, chain) ==
  IF chain = <<>> THEN rows
  ELSE SelectSeq(rows, LAMBDA row : DrillInto(row, chain) # PyNone)

\* the rows after the drill loop (lines 259-267)
DrilledRows(rows, chain) ==
  IF chain = <<>> THEN rows
  ELSE [r \in 1..Len(rows) |->
          LET drilled == DrillInto(rows[r], chain)
          IN IF drilled # PyNone THEN drilled ELSE rows[r]]

Drill ==
  /\ pc = "drill"
  /\ rows_raw' = DrilledRows(rows_raw, main_path)
  /\ pc' = "flatten"
  /\ UNCHANGED <<writer, runner, inputs, rows_original, all_flat, all_keys, columns>>

\* MergeExtra keeping the value a column already has
RECURSIVE MergeExtraMutKeepFirst(_, _, _, _)
MergeExtraMutKeepFirst(flat, pairs, prefix, sep) ==
  IF pairs = <<>> THEN flat
  ELSE LET col == IF prefix # <<>> THEN prefix \o sep \o pairs[1][1] ELSE pairs[1][1]
       IN MergeExtraMutKeepFirst(IF HasKey(flat, col) THEN flat
                                 ELSE DictSet(flat, col, pairs[1][2]),
                                 Tail(pairs), prefix, sep)

\* for k, v in extra_flat.items(): flat[col] = v  (lines 288-291)
RECURSIVE MergeExtra(_, _, _, _)
MergeExtra(flat, pairs, prefix, sep) ==
  IF pairs = <<>> THEN flat
  ELSE LET col == IF prefix # <<>> THEN prefix \o sep \o pairs[1][1] ELSE pairs[1][1]
       IN MergeExtra(DictSet(flat, col, pairs[1][2]), Tail(pairs), prefix, sep)

\* for extra in extra_paths: ...  (lines 280-291)
RECURSIVE MergeExtras(_, _, _, _, _, _)
MergeExtras(flat, orig, extras, sep, exclude, exclude_in_path) ==
  IF extras = <<>> THEN flat
  ELSE
    LET extra == Head(extras)
        sub == DrillInto(orig, extra)
        prefix == KeyPart(IF extra # <<>> THEN extra[Len(extra)] ELSE <<>>, sep)
        flat1 == IF sub = PyNone THEN flat
                 ELSE MergeExtra(flat,
                                 FlattenRow(sub, sep, exclude, exclude_in_path).pairs,
                                 prefix, sep)
    IN MergeExtras(flat1, orig, Tail(extras), sep, exclude, exclude_in_path)

\* the flat row of row i (lines 272-291)
FlatOfRow(i) ==
  MergeExtras(FlattenRow(rows_raw[i], path_sep, exclude_set, exclude_keys_in_path),
              rows_original[i], extra_paths, path_sep, exclude_set,
              exclude_keys_in_path)

\* one iteration of the loop over rows_raw (lines 271-293)
FlattenNext ==
  /\ pc = "flatten"
  /\ Len(all_flat) < Len(rows_raw)
  /\ LET flat == FlatOfRow(Len(all_flat) + 1)
     IN /\ all_flat' = Append(all_flat, flat)
        /\ all_keys' = all_keys \cup DictKeys(flat)
  /\ UNCHANGED <<writer, runner, inputs, pc, rows_original, rows_raw, columns>>

\* columns = sorted(all_keys, key=_column_sort_key)  (line 296)
SortColumns ==
  /\ pc = "flatten"
  /\ Len(all_flat) = Len(rows_raw)
  /\ columns' = SortedByKey(SetToSeq(all_keys))
  /\ pc' = "include"
  /\ UNCHANGED <<writer, runner, inputs, rows_original, rows_raw, all_flat, all_keys>>

\* FilterIncluded keeping every column that starts with a listed name
FilterIncludedMutPrefix(cols) ==
  IF Truthy(include_only_keys)
  THEN SortedByKey(SelectSeq(cols,
         LAMBDA c : \E x \in include_set : StartsWith(c, x)))
  ELSE cols

\* the include_only_keys filter (lines 297-299)
FilterIncluded(cols) ==
  IF Truthy(include_only_keys)
  THEN SortedByKey(SelectSeq(cols, LAMBDA c : c \in include_set))
  ELSE cols

IncludeOnly ==
  /\ pc = "include"
  /\ columns' = FilterIncluded(columns)
  /\ pc' = "order"
  /\ UNCHANGED <<writer, runner, inputs, rows_original, rows_raw, all_flat, all_keys>>

\* for item in column_order: ...  (lines 305-319): ordered after the items
SeqToSet(q) == {q[j] : j \in 1..Len(q)}

RECURSIVE PlaceItems(_, _, _, _)
PlaceItems(items, cols, ordered, prefix_sep) ==
  IF items = <<>> THEN ordered
  ELSE
    LET item_str == Strip(Head(items))
        used == SeqToSet(ordered)
        prefix == item_str \o prefix_sep
        matching == SortedByKey(SelectSeq(cols,
                      LAMBDA c : StartsWith(c, prefix) /\ c \notin used))
        ordered1 == IF item_str = <<>> THEN ordered
                    ELSE IF item_str \in SeqToSet(cols) /\ item_str \notin used
                    THEN Append(ordered, item_str)
                    ELSE ordered \o matching
    IN PlaceItems(Tail(items), cols, ordered1, prefix_sep)

\* the column_order block (lines 300-321)
OrderedColumns(cols) ==
  IF Truthy(column_order)
  THEN LET prefix_sep == IF path_sep # <<>> THEN path_sep ELSE <<" ", "-", " ">>
           ordered == PlaceItems(column_order.items, cols, <<>>, prefix_sep)
           rest == SelectSeq(cols, LAMBDA c : c \notin SeqToSet(ordered))
       IN ordered \o rest
  ELSE cols

ColumnOrder ==
  /\ pc = "order"
  /\ columns' = OrderedColumns(columns)
  /\ pc' = "done"
  /\ UNCHANGED <<writer, runner, inputs, rows_original, rows_raw, all_flat, all_keys>>

Next ==
  \/ Extract
  \/ Drill
  \/ FlattenNext
  \/ SortColumns
  \/ IncludeOnly
  \/ ColumnOrder

--------------------------------------------------------------------------
(* Bounded inputs                                                          *)

\* nesting depth of the object chains
MaxDepth == 3
\* length of the arrays inside a row
MaxArrLen == 2
\* length of a root array
MaxRootLen == 3

Obj1(k, v) == JObj(<< <<k, v>> >>)
Obj2(k1, v1, k2, v2) == JObj(<< <<k1, v1>>, <<k2, v2>> >>)

Scalars == {JNull, JBool(TRUE), JBool(FALSE), JNum(1), JStr(<<"v">>)}

\* keys: two plain ones, one that strip() maps onto "a", one holding the
\* stripped separator, and the empty key
FlatKeys == {<<"a">>, <<"b">>, <<"a", " ">>, <<"-">>, <<>>}

\* {k: v} for every key and every v of V
Wrap(V) == {Obj1(k, v) : k \in FlatKeys, v \in V}

\* single-key object chains of depth 1..d ending in a scalar
RECURSIVE ChainObjs(_)
ChainObjs(d) ==
  IF d <= 1 THEN Wrap(Scalars) ELSE Wrap(Scalars \cup ChainObjs(d - 1))

\* objects with two sibling keys, scalar or nested below
SiblingObjs ==
  {Obj2(kk[1], vv[1], kk[2], vv[2]) :
     kk \in {p \in FlatKeys \X FlatKeys : p[1] # p[2]},
     vv \in { <<JNum(1), JStr(<<"v">>)>>,
              <<JNull, Obj1(<<"b">>, JBool(TRUE))>>,
              <<Obj1(<<"b">>, JNum(1)), Obj1(<<"a">>, JBool(FALSE))>> }}

NestedRows == ChainObjs(MaxDepth) \cup SiblingObjs \cup Wrap(SiblingObjs)

\* elements of the arrays: objects (scalar, colliding, nested values), and
\* non-objects that make an array scalar-only or mixed
ArrayElems ==
  {Obj1(k, JNum(1)) : k \in FlatKeys}
  \cup { Obj1(<<"a">>, JNull), Obj1(<<"b">>, JBool(TRUE)),
         Obj2(<<"a">>, JNum(1), <<"b">>, JStr(<<"v">>)),
         Obj2(<<"a">>, JNum(1), <<"a", " ">>, JStr(<<"v">>)),
         EmptyDict,
         Obj1(<<"a">>, Obj1(<<"b">>, JNum(1))),
         Obj1(<<"a">>, JArr(<< Obj1(<<"b">>, JNum(1)) >>)),
         Obj1(<<"b">>, JArr(<< JNum(1), JNull >>)),
         JNum(1), JNull, JBool(TRUE), JStr(<<"v">>), JArr(<<>>) }

\* all sequences over S of length 0..n
RECURSIVE SeqsUpTo(_, _)
SeqsUpTo(S, n) ==
  IF n = 0 THEN {<<>>}
  ELSE LET shorter == SeqsUpTo(S, n - 1)
       IN shorter \cup {Append(q, x) : q \in shorter, x \in S}

Arrays == {JArr(q) : q \in SeqsUpTo(ArrayElems, MaxArrLen)}

\* a row whose only value is an array, at a top-level key or one level down
ArrayRows ==
  {Obj1(p, arr) : p \in {<<"e">>, <<>>}, arr \in Arrays}
  \cup {Obj1(<<"a">>, Obj1(<<"e">>, arr)) : arr \in Arrays}

FlattenDocs == {JArr(<<row>>) : row \in NestedRows \cup ArrayRows}

\* number of keys of a root object
MaxRootKeys == 3

\* elements of a root array: objects and non-objects
RootElems ==
  { Obj1(<<"a">>, JNum(1)), Obj1(<<"b">>, JStr(<<"v">>)), EmptyDict,
    JNum(1), JNull, JArr(<<JNum(1)>>) }

RootArrays == {JArr(q) : q \in SeqsUpTo(RootElems, MaxRootLen)}

\* keys of a root object: the four priority keys and another one
RootKeys == { <<"r", "e", "s", "u", "l", "t", "s">>, <<"d", "a", "t", "a">>,
              <<"i", "t", "e", "m", "s">>, <<"r", "o", "w", "s">>, <<"x">> }

\* values of a root object: an array of objects, an array with a scalar,
\* the empty array, a scalar
RootValues ==
  { JArr(<< Obj1(<<"a">>, JNum(1)), Obj1(<<"b">>, JStr(<<"v">>)) >>),
    JArr(<< JNum(1), Obj1(<<"a">>, JBool(TRUE)) >>),
    JArr(<<>>),
    JNum(1) }

\* the sequences of pairs with distinct keys, of length 0..n
RECURSIVE PairSeqs(_, _, _)
PairSeqs(K, V, n) ==
  IF n = 0 THEN {<<>>}
  ELSE LET shorter == PairSeqs(K, V, n - 1)
           fresh(q, k) == \A j \in 1..Len(q) : q[j][1] # k
       IN shorter \cup
          {Append(qk[1], <<qk[2], v>>) :
             qk \in {x \in shorter \X K : fresh(x[1], x[2])}, v \in V}

RootObjects == {JObj(q) : q \in PairSeqs(RootKeys, RootValues, MaxRootKeys)}

ExtractDocs == RootArrays \cup RootObjects \cup {JNum(1), JNull}

\* number of rows of a document of the column planner's inputs
MaxRows == 2

KeyA == <<"a">>
KeyB == <<"b">>
KeyE == <<"e">>
KeyK == <<"k">>
One == JNum(1)

\* rows whose columns fall into the groups "_", "a", "b" and "e", plain,
\* indexed by an exploded array, and nested below an indexed path
PlanRows ==
  { Obj1(KeyA, One),
    Obj1(KeyB, Obj1(KeyA, One)),
    Obj1(KeyA, Obj1(KeyB, One)),
    Obj2(<<"-">>, One, KeyA, One),
    Obj1(KeyE, Obj1(KeyB, One)),
    Obj1(KeyE, JArr(<< Obj1(KeyA, One), Obj1(KeyA, One) >>)),
    Obj1(KeyA, JArr(<< Obj1(KeyB, One), Obj1(KeyB, One) >>)),
    Obj1(KeyE, JArr(<< Obj1(KeyB, Obj1(KeyA, One)), Obj1(KeyA, Obj1(KeyA, One)) >>)),
    Obj1(KeyE, JArr(<< Obj1(KeyA, One), Obj1(KeyB, One), EmptyDict, EmptyDict,
                    EmptyDict, EmptyDict, EmptyDict, EmptyDict, EmptyDict,
                    Obj1(KeyA, One) >>)),
    Obj1(KeyB, JArr(<< Obj1(KeyA, JArr(<< Obj1(KeyB, One), Obj1(KeyB, One) >>)) >>)),
    Obj2(KeyA, Obj1(KeyB, One), <<"a", "-">>, One),
    EmptyDict }

Slash == <<"/">>

\* rows read under the separator "/"
SlashRows ==
  { Obj1(KeyA, One),
    Obj2(KeyA, Obj1(KeyB, One), <<"a", "-">>, One),
    Obj1(KeyE, JArr(<< Obj1(KeyA, One), Obj1(KeyA, One) >>)) }

PlanDocs == {JArr(q) : q \in SeqsUpTo(PlanRows, MaxRows) \ {<<>>}}

Col_a == KeyA
Col_a_b == <<"a", " ", "-", " ", "b">>
Col_e_a_1 == <<"e", " ", "-", " ", "a", " ", "-", " ", "(", "1", ")">>
Col_e_a_2 == <<"e", " ", "-", " ", "a", " ", "-", " ", "(", "2", ")">>
Col_e_a_10 == <<"e", " ", "-", " ", "a", " ", "-", " ", "(", "1", "0", ")">>

PlanIncludes ==
  { PyNone, PyList(<<>>),
    PyList(<< Col_a, Col_e_a_2, <<"z">> >>),
    PyList(<< Col_e_a_10, Col_a_b, Col_e_a_1, KeyE >>) }

PlanOrders ==
  { PyNone, PyList(<<>>),
    PyList(<< KeyE >>),
    PyList(<< KeyA, KeyA >>),
    PyList(<< Col_e_a_2, KeyB, <<" ", "a", " ">>, <<" ">> >>),
    PyList(<< KeyE, Col_e_a_1, <<"z">> >>) }

\* number of names in exclude_keys
MaxExclude == 2

\* single-key chains over plain keys, of depth 1..d
RECURSIVE PlainChains(_)
PlainChains(d) ==
  IF d <= 1 THEN {Obj1(k, One) : k \in {KeyA, KeyB, KeyK}}
  ELSE {Obj1(k, One) : k \in {KeyA, KeyB, KeyK}}
       \cup {Obj1(k, v) : k \in {KeyA, KeyB, KeyK}, v \in PlainChains(d - 1)}

ExcludeElems ==
  { Obj1(KeyK, One), Obj1(KeyB, JStr(<<"v">>)), Obj1(KeyK, Obj1(KeyB, One)),
    Obj2(KeyA, One, KeyK, JBool(TRUE)), JNum(1) }

ExcludeRows ==
  PlainChains(MaxDepth)
  \cup {Obj1(KeyE, JArr(q)) : q \in SeqsUpTo(ExcludeElems, MaxArrLen)}
  \cup { Obj2(KeyA, Obj2(KeyB, One, KeyK, JNull), KeyB, JStr(<<"v">>)),
         Obj2(KeyK, Obj1(KeyA, Obj1(KeyB, One)), KeyA, Obj1(KeyB, JNum(2))),
         Obj1(KeyA, Obj1(KeyE, JArr(<< Obj1(KeyB, Obj1(KeyK, One)) >>))),
         Obj1(KeyE, JArr(<< Obj1(KeyK, JArr(<< Obj1(KeyB, One) >>)),
                         Obj1(KeyB, Obj1(KeyK, One)) >>)) }

ExcludeDocs == {JArr(<<row>>) : row \in ExcludeRows}

ExcludeNames ==
  << KeyK, KeyB, Col_a_b, <<"e", " ", "-", " ", "k">>,
     <<"e", " ", "-", " ", "k", " ", "-", " ", "(", "1", ")">>,
     <<"a", " ", "-", " ", "e">>, <<"a", " ", "_", " ", "k">> >>

\* the exclude_keys lists: names of ExcludeNames in increasing position
ExcludeLists ==
  {q \in SeqsUpTo(1..Len(ExcludeNames), MaxExclude) :
     \A j \in 1..(Len(q) - 1) : q[j] < q[j + 1]}

NoRules == {<<>>}
Defaults == {PyNone}

InitFlatten ==
  InitFrom(FlattenDocs, {DEFAULT_PATH_SEP}, {<<>>}, {<<>>}, {<<>>}, NoRules,
           Defaults, Defaults)

SpecFlatten == InitFlatten /\ [][Next]_vars

--------------------------------------------------------------------------
(* Vocabulary of the claims                                                *)

Sep3 == <<" ", "-", " ">>

\* a value made only of nested objects with scalar leaves
RECURSIVE IsNestedObj(_)
IsNestedObj(v) ==
  /\ v.tag = "obj"
  /\ \A j \in 1..Len(v.pairs) :
       IsScalarOrNone(v.pairs[j][2]) \/ IsNestedObj(v.pairs[j][2])

\* the scalar leaves of a nested object in document order, each with the
\* keys on its path
RECURSIVE LeavesOf(_, _)
RECURSIVE LeavesOfPairs(_, _)
LeavesOf(v, path) ==
  IF v.tag = "obj" THEN LeavesOfPairs(v.pairs, path)
  ELSE << [path |-> path, val |-> v] >>

LeavesOfPairs(pairs, path) ==
  IF pairs = <<>> THEN <<>>
  ELSE LeavesOf(pairs[1][2], Append(path, pairs[1][1]))
       \o LeavesOfPairs(Tail(pairs), path)

\* the keys joined with " - "
RawName(path) == Join(Sep3, path)

\* a key with every "-" turned into "_" and the blanks at its ends removed
NormKey(k) ==
  LET u == [j \in 1..Len(k) |-> IF k[j] = "-" THEN "_" ELSE k[j]]
      first == {j \in 1..Len(u) : u[j] # " "}
  IN IF first = {} THEN <<>>
     ELSE SubSeq(u, CHOOSE j \in first : \A h \in first : j <= h,
                    CHOOSE j \in first : \A h \in first : j >= h)

\* the normalised keys joined with " - ", empty leading keys dropped
RECURSIVE DropEmptyHead(_)
DropEmptyHead(parts) ==
  IF parts # <<>> /\ Head(parts) = <<>> THEN DropEmptyHead(Tail(parts)) ELSE parts

NormName(path) ==
  Join(Sep3, DropEmptyHead([j \in 1..Len(path) |-> NormKey(path[j])]))

\* the cell value of a scalar: the typing rules of the row/column contract
CellOf(v) ==
  IF v.tag = "null" THEN JStr(<<>>)
  ELSE IF v.tag = "bool"
       THEN JStr(IF v.b THEN <<"t", "r", "u", "e">> ELSE <<"f", "a", "l", "s", "e">>)
  ELSE v

IsCellValue(c) == c.tag \in {"num", "str"}

\* no exclusion, no drilling, the default separator
PlainFlatten ==
  /\ path_sep = Sep3
  /\ path_start = <<>> /\ path_starts = <<>>
  /\ exclude_keys = <<>> /\ exclude_keys_in_path = <<>>

--------------------------------------------------------------------------
(* C1                                                                      *)

\* C1 as stated: a row of nested objects with scalar leaves flattens to
\* exactly one column per leaf, named by the keys on the leaf's path joined
\* with " - " and holding the leaf's value.
C1_AsStated ==
  PlainFlatten =>
    \A i \in 1..Len(all_flat) :
      IsNestedObj(rows_raw[i]) =>
        LET leaves == LeavesOf(rows_raw[i], <<>>)
            flat == all_flat[i]
        IN /\ Len(flat.pairs) = Len(leaves)
           /\ \A l \in 1..Len(leaves) :
                /\ HasKey(flat, RawName(leaves[l].path))
                /\ DictGet(flat, RawName(leaves[l].path)) = CellOf(leaves[l].val)

\* C1 (amended): a row of nested objects with scalar leaves flattens to
\* exactly one column per distinct normalised leaf path -- every key on the
\* path with "-" replaced by "_" and the blanks at its ends removed, empty
\* leading keys dropped, the rest joined with " - " -- and the column holds
\* the cell value of the last leaf, in document order, with that path.
C1_NormalisedPaths ==
  PlainFlatten =>
    \A i \in 1..Len(all_flat) :
      IsNestedObj(rows_raw[i]) =>
        LET leaves == LeavesOf(rows_raw[i], <<>>)
            flat == all_flat[i]
            names == {NormName(leaves[l].path) : l \in 1..Len(leaves)}
            last(name) == CHOOSE l \in 1..Len(leaves) :
                            /\ NormName(leaves[l].path) = name
                            /\ \A h \in 1..Len(leaves) :
                                 NormName(leaves[h].path) = name => h <= l
        IN /\ DictKeys(flat) = names
           /\ Len(flat.pairs) = Cardinality(names)
           /\ \A name \in names :
                DictGet(flat, name) = CellOf(leaves[last(name)].val)

\* a row three objects deep, with a key that normalisation changes, flattened
C1_Witness ==
  /\ PlainFlatten
  /\ \E i \in 1..Len(all_flat) :
       /\ IsNestedObj(rows_raw[i])
       /\ \E l \in 1..Len(LeavesOf(rows_raw[i], <<>>)) :
            LET leaf == LeavesOf(rows_raw[i], <<>>)[l]
            IN /\ Len(leaf.path) = 3
               /\ NormName(leaf.path) # RawName(leaf.path)
               /\ HasKey(all_flat[i], NormName(leaf.path))

--------------------------------------------------------------------------
(* C2                                                                      *)

\* the keys leading to the row's only value, through single-key objects
RECURSIVE OnlyPath(_)
OnlyPath(v) ==
  IF v.tag = "obj" /\ Len(v.pairs) = 1
  THEN <<v.pairs[1][1]>> \o OnlyPath(v.pairs[1][2])
  ELSE <<>>

RECURSIVE OnlyValue(_)
OnlyValue(v) ==
  IF v.tag = "obj" /\ Len(v.pairs) = 1 THEN OnlyValue(v.pairs[1][2]) ELSE v

\* the row's only value is an array of k >= 1 objects
IsObjectArrayRow(row) ==
  /\ row.tag = "obj" /\ Len(row.pairs) = 1
  /\ OnlyValue(row).tag = "arr"
  /\ OnlyValue(row).items # <<>>
  /\ \A j \in 1..Len(OnlyValue(row).items) : OnlyValue(row).items[j].tag = "obj"

IndexText(i) == <<"(">> \o IntToStr(i) \o <<")">>

--------------------------------------------------------------------------
(* C3                                                                      *)

\* C3: every value of every flat row is a cell value (a number or a text,
\* never a raw boolean, null, list or object); a null leaf is stored as
\* the empty text, a boolean leaf as "true" or "false", a number or a
\* string leaf as it is.
C3_CellValues ==
  \A i \in 1..Len(all_flat) :
    /\ \A j \in 1..Len(all_flat[i].pairs) : IsCellValue(all_flat[i].pairs[j][2])
    /\ (PlainFlatten /\ IsNestedObj(rows_raw[i])) =>
         LET leaves == LeavesOf(rows_raw[i], <<>>)
         IN \A l \in 1..Len(leaves) :
              (\A h \in 1..Len(leaves) :
                 h # l => NormName(leaves[h].path) # NormName(leaves[l].path))
              => LET c == DictGet(all_flat[i], NormName(leaves[l].path))
                     v == leaves[l].val
                 IN CASE v.tag = "null" -> c = [tag |-> "str", s |-> <<>>]
                      [] v.tag = "bool" ->
                           c = [tag |-> "str",
                                s |-> IF v.b THEN <<"t", "r", "u", "e">>
                                            ELSE <<"f", "a", "l", "s", "e">>]
                      [] OTHER -> c = v

\* a flat row holding the text of a boolean and the empty text of a null
C3_Witness ==
  \E i \in 1..Len(all_flat) :
    /\ \E j \in 1..Len(all_flat[i].pairs) :
         all_flat[i].pairs[j][2] = JStr(<<"t", "r", "u", "e">>)
    /\ \E j \in 1..Len(all_flat[i].pairs) :
         all_flat[i].pairs[j][2] = JStr(<<>>)
    /\ rows_raw[i].tag = "obj"
    /\ \E j \in 1..Len(rows_raw[i].pairs) : rows_raw[i].pairs[j][2] = JNull

InitExtract ==
  InitFrom(ExtractDocs, {DEFAULT_PATH_SEP}, {<<>>}, {<<>>}, {<<>>}, NoRules,
           Defaults, Defaults)

SpecExtract == InitExtract /\ [][Next]_vars

--------------------------------------------------------------------------
(* C4                                                                      *)

\* the rows of a root array: an object as it is, anything else as {"_": it}
RowsOfArray(items) ==
  [i \in 1..Len(items) |->
     IF items[i].tag = "obj" THEN items[i]
     ELSE [tag |-> "obj", pairs |-> << << <<"_">>, items[i] >> >>]]

\* C4: for a root array of N elements extract_rows returns exactly N rows
\* in the original order, row i being element i itself when it is an
\* object and {"_": element} otherwise (and N flat rows are returned).
C4_RootArrayRows ==
  (pc # "extract" /\ data.tag = "arr") =>
    /\ Len(rows_original) = Len(data.items)
    /\ rows_original = RowsOfArray(data.items)
    /\ pc = "done" => Len(all_flat) = Len(data.items)

\* a root array of three elements, objects and non-objects, extracted
C4_Witness ==
  /\ pc = "done" /\ data.tag = "arr" /\ Len(data.items) = 3
  /\ data.items[1].tag = "num" /\ data.items[2].tag = "obj"
  /\ data.items[3].tag = "arr"
  /\ rows_original[1] = Obj1(<<"_">>, data.items[1])
  /\ rows_original[2] = data.items[2]

--------------------------------------------------------------------------
(* C5                                                                      *)

ResultsDataItemsRows ==
  << <<"r", "e", "s", "u", "l", "t", "s">>, <<"d", "a", "t", "a">>,
     <<"i", "t", "e", "m", "s">>, <<"r", "o", "w", "s">> >>

\* the value of key k in the root object data
RootValue(k) ==
  data.pairs[CHOOSE j \in 1..Len(data.pairs) : data.pairs[j][1] = k][2]

\* key number p of results, data, items, rows is mapped to an array
MapsToArray(p) ==
  /\ \E j \in 1..Len(data.pairs) : data.pairs[j][1] = ResultsDataItemsRows[p]
  /\ RootValue(ResultsDataItemsRows[p]).tag = "arr"

InitPlan ==
  /\ InitFrom(PlanDocs, {DEFAULT_PATH_SEP, Slash}, {<<>>}, {<<>>}, {<<>>},
              NoRules, PlanIncludes, PlanOrders)
  /\ path_sep = Slash =>
       /\ \A j \in 1..Len(data.items) : data.items[j] \in SlashRows
       /\ include_only_keys = PyNone
       /\ column_order = PyNone

SpecPlan == InitPlan /\ [][Next]_vars

InitExclude ==
  InitFrom(ExcludeDocs, {DEFAULT_PATH_SEP}, {<<>>}, {<<>>},
           {[j \in 1..Len(q) |-> ExcludeNames[q[j]]] : q \in ExcludeLists},
           NoRules, Defaults, Defaults)

SpecExclude == InitExclude /\ [][Next]_vars

--------------------------------------------------------------------------
(* The column planner                                                      *)

\* the call has returned the default column order
ReturnedDefault == pc = "done" /\ ~Truthy(column_order)

\* "(n)": a positional index
IsIndexSegment(seg) ==
  /\ Len(seg) >= 3
  /\ seg[1] = "(" /\ seg[Len(seg)] = ")"
  /\ \A j \in 2..(Len(seg) - 1) : seg[j] \in Digits

IndexOfSegment(seg) == StrToNat(SubSeq(seg, 2, Len(seg) - 1))

\* the positional indices a column name carries, by segment position
IndexSegments(c) ==
  LET segs == Split(c, Sep3)
  IN {j \in 1..Len(segs) : IsIndexSegment(segs[j])}

\* the column carries exactly one positional index
CarriesOneIndex(c) == Cardinality(IndexSegments(c)) = 1

TheIndex(c) ==
  LET segs == Split(c, Sep3)
  IN IndexOfSegment(segs[CHOOSE j \in IndexSegments(c) : TRUE])

\* the first path segment of a column name under separator sep
FirstSegment(c, sep) == Split(c, sep)[1]

\* C6 (as stated): in the returned default order, of two columns with the
\* same first path segment that carry the positional indices m < n, the (m)
\* column comes before the (n) column, wherever in the name the index is.
C6_AsStated ==
  ReturnedDefault /\ path_sep = Sep3 =>
    \A i \in 1..Len(columns) : \A j \in 1..Len(columns) :
      ( /\ FirstSegment(columns[i], Sep3) = FirstSegment(columns[j], Sep3)
        /\ CarriesOneIndex(columns[i]) /\ CarriesOneIndex(columns[j])
        /\ TheIndex(columns[i]) < TheIndex(columns[j]) )
      => i < j

\* C7 (as stated): in the returned default order, the columns sharing a
\* first path segment are contiguous: no column of another group lies
\* between two columns of one group.
C7_AsStated ==
  ReturnedDefault /\ path_sep # <<>> =>
    \A i \in 1..Len(columns) : \A k \in i..Len(columns) :
      FirstSegment(columns[i], path_sep) = FirstSegment(columns[k], path_sep)
      => \A j \in i..k :
           FirstSegment(columns[j], path_sep) = FirstSegment(columns[i], path_sep)

\* the names listed in include_only_keys
Listed == {include_only_keys.items[j] : j \in 1..Len(include_only_keys.items)}

\* C8: the include_only_keys step leaves, of the default column list,
\* exactly the columns whose name is in a non-empty list L, in their
\* default order, and leaves the list as it is when L is empty or absent.
C8_IncludeOnly ==
  [][pc = "include" =>
       columns' = IF include_only_keys.tag = "list" /\ Len(include_only_keys.items) > 0
                  THEN SelectSeq(columns, LAMBDA c : c \in Listed)
                  ELSE columns]_vars

\* a filter that kept at least two columns, dropped others, and listed a
\* name that no row produced
C8_Witness ==
  /\ pc = "order"
  /\ include_only_keys.tag = "list"
  /\ Len(columns) >= 2
  /\ Len(columns) < Cardinality(all_keys)
  /\ \E x \in Listed : x \notin all_keys
  /\ \A j \in 1..Len(columns) : columns[j] \in Listed

\* the order the column_order rule gives: tokens are trimmed and empty ones
\* skipped; a token equal to a column places that column, once; a token
\* equal to no column places the not-yet-placed columns starting with
\* token+separator, in default order
RECURSIVE ClaimPlace(_, _, _, _)
ClaimPlace(tokens, cols, placed, sep) ==
  IF tokens = <<>> THEN placed
  ELSE
    LET t == Strip(Head(tokens))
        isPlaced(c) == \E j \in 1..Len(placed) : placed[j] = c
        isColumn == \E j \in 1..Len(cols) : cols[j] = t
        group == SelectSeq(cols, LAMBDA c : StartsWith(c, t \o sep) /\ ~isPlaced(c))
        placed1 == IF t = <<>> THEN placed
                   ELSE IF isColumn
                   THEN (IF isPlaced(t) THEN placed ELSE Append(placed, t))
                   ELSE placed \o group
    IN ClaimPlace(Tail(tokens), cols, placed1, sep)

ClaimOrder(cols, tokens, sep) ==
  LET placed == ClaimPlace(tokens, cols, <<>>, sep)
  IN placed \o SelectSeq(cols, LAMBDA c : \A j \in 1..Len(placed) : placed[j] # c)

\* C9 (as stated): with column_order given, the column_order step turns the
\* default column list into: for each token in order, the column equal to
\* the token or, when no column equals it, the not-yet-placed columns
\* starting with token+separator in default order; then the columns never
\* mentioned, in default order.
C9_AsStated ==
  [][pc = "order" /\ Truthy(column_order) =>
       columns' = ClaimOrder(columns, column_order.items, path_sep)]_vars

--------------------------------------------------------------------------
(* Exclusion                                                               *)

\* the row flattened with nothing excluded
Unexcluded(row) == FlattenRow(row, path_sep, {}, <<>>)

\* column c is the column of an excluded key or path, derives from a path
\* through an excluded key name, or is nested under an excluded path
Removed(c) ==
  \E x \in exclude_set :
    \/ c = x
    \/ StartsWith(c, x \o path_sep)
    \/ \E j \in 1..Len(Split(c, path_sep)) : Split(c, path_sep)[j] = x

\* C10 (as stated): every flat row has exactly the columns of the row
\* flattened without exclusion that are neither the column of an excluded
\* key or path, nor derived from a path through an excluded key name, nor
\* nested under an excluded path; and these columns keep their values.
C10_AsStated ==
  \A r \in 1..Len(all_flat) :
    LET full == Unexcluded(rows_raw[r])
        flat == all_flat[r]
    IN /\ DictKeys(flat) = {c \in DictKeys(full) : ~Removed(c)}
       /\ \A c \in DictKeys(flat) : DictGet(flat, c) = DictGet(full, c)

--------------------------------------------------------------------------
(* Exclusion applied again to the returned rows                            *)

\* flatten_json_data(d, path_sep=sep, exclude_keys=excl,
\* exclude_keys_in_path=rules) with no drilling, filter or order:
\* the flat rows and the columns of a whole call
FlattenAll(d, sep, excl, rules) ==
  LET rows == ExtractRows(d)
      flats == [i \in 1..Len(rows) |-> FlattenRow(rows[i], sep, excl, rules)]
      keys == UNION {DictKeys(flats[i]) : i \in 1..Len(rows)}
  IN [all_flat |-> flats, columns |-> SortedByKey(SetToSeq(keys))]

\* the call applied to the rows it returned, with the same arguments
Reapplied == FlattenAll(JArr(all_flat), path_sep, exclude_set, exclude_keys_in_path)

\* a finished call with exclusion only
ExclusionOnly ==
  /\ pc = "done"
  /\ path_sep = Sep3
  /\ path_start = <<>> /\ path_starts = <<>>
  /\ exclude_keys_in_path = <<>>
  /\ include_only_keys = PyNone /\ column_order = PyNone

\* C11 (as stated): flattening the returned rows again with the same
\* exclude_keys returns the same rows and the same columns.
C11_AsStated ==
  ExclusionOnly =>
    /\ Reapplied.all_flat = all_flat
    /\ Reapplied.columns = columns

\* the columns of a flat row that the second call keeps: those whose
\* normalised name is not excluded
KeptAgain(flat) ==
  {c \in DictKeys(flat) : NormKey(c) \notin exclude_set}

\* C11 (amended): flattening the returned rows again with the same
\* exclude_keys returns as many rows; row r has exactly the normalised names
\* ("-" turned into "_", blanks at the ends removed) of the columns of the
\* first row r whose normalised name is not in exclude_keys, each with the
\* value of the last first-call column with that normalised name; the
\* returned columns are these names; so rows and columns are the same
\* whenever normalisation changes no column name of the first call.
C11_RenamedAgain ==
  ExclusionOnly =>
    /\ Len(Reapplied.all_flat) = Len(all_flat)
    /\ \A r \in 1..Len(all_flat) :
         LET first == all_flat[r]
             again == Reapplied.all_flat[r]
             Last(n) == CHOOSE j \in 1..Len(first.pairs) :
                          /\ NormKey(first.pairs[j][1]) = n
                          /\ \A h \in 1..Len(first.pairs) :
                               NormKey(first.pairs[h][1]) = n => h <= j
         IN /\ DictKeys(again) = {NormKey(c) : c \in KeptAgain(first)}
            /\ \A n \in DictKeys(again) :
                 DictGet(again, n) = first.pairs[Last(n)][2]
    /\ SeqToSet(Reapplied.columns)
         = UNION {{NormKey(c) : c \in KeptAgain(all_flat[r])} : r \in 1..Len(all_flat)}
    /\ (\A c \in all_keys : NormKey(c) = c) =>
         Reapplied.all_flat = all_flat /\ Reapplied.columns = columns

\* a first call that excluded a nested key and returned a nested column,
\* which the second call renames
C11_Witness ==
  /\ ExclusionOnly
  /\ exclude_keys # <<>>
  /\ \E r \in 1..Len(all_flat) :
       /\ DictKeys(all_flat[r]) # DictKeys(Unexcluded(rows_raw[r]))
       /\ \E c \in DictKeys(all_flat[r]) :
            NormKey(c) # c /\ NormKey(c) \in DictKeys(Reapplied.all_flat[r])

--------------------------------------------------------------------------
(* Scoped exclusion rules                                                  *)

\* the containers put side by side: objects and arrays of objects holding
\* the keys k and b, directly and one level down
ScopedContainers ==
  { Obj1(KeyK, One),
    Obj2(KeyK, One, KeyB, JStr(<<"v">>)),
    Obj1(KeyB, Obj1(KeyK, One)),
    JArr(<< Obj1(KeyK, One), Obj2(KeyB, One, KeyK, JBool(TRUE)) >>),
    JArr(<< Obj1(KeyB, Obj1(KeyK, One)) >>) }

ScopedNames == {KeyA, KeyE, KeyK, <<"a", "k">>}

\* two sibling containers, at the row root or under the key x
ScopedRows ==
  LET pairs == {nn \in ScopedNames \X ScopedNames : nn[1] # nn[2]}
      sib == {Obj2(nn[1], c1, nn[2], c2) :
                nn \in pairs, c1 \in ScopedContainers, c2 \in ScopedContainers}
  IN sib \cup {Obj1(<<"x">>, row) : row \in sib}

ScopedDocs == {JArr(<<row>>) : row \in ScopedRows}

ScopedRules ==
  {<<>>} \cup
  { << [path |-> P, keys |-> Ks] >> :
      P \in {KeyA, KeyK, KeyE, <<" ", "a", " ">>, <<"x", " ", "-", " ", "a">>},
      Ks \in {<<KeyK>>, <<KeyK, KeyB>>, <<KeyB>>} }

InitScoped ==
  InitFrom(ScopedDocs, {DEFAULT_PATH_SEP}, {<<>>}, {<<>>}, {<<>>}, ScopedRules,
           Defaults, Defaults)

SpecScoped == InitScoped /\ [][Next]_vars

\* a container: an object, or a non-empty array of objects
IsContainer(v) ==
  \/ IsDict(v)
  \/ IsList(v) /\ v.items # <<>> /\ \A i \in 1..Len(v.items) : IsDict(v.items[i])

\* the objects of a row that hold sibling containers, with their paths
SiblingParents(row) ==
  {[at |-> <<>>, obj |-> row]}
  \cup {[at |-> <<row.pairs[j][1]>>, obj |-> row.pairs[j][2]] :
          j \in {h \in 1..Len(row.pairs) : IsDict(row.pairs[h][2])}}

\* path text Q ends with or contains the rule path P
InScope(Q, P) == EndsWith(Q, P) \/ Contains(Q, P)

\* key k is a segment of column c below the path Q
KeyBelow(c, Q, k) ==
  /\ StartsWith(c, Q \o Sep3)
  /\ LET segs == Split(SubSeq(c, Len(Q) + Len(Sep3) + 1, Len(c)), Sep3)
     IN \E j \in 1..Len(segs) : segs[j] = k

\* key k of container B at path Q, wherever it holds a scalar, has its
\* column in flat with its value
RetainedUnder(flat, B, Q, k) ==
  IF IsDict(B)
  THEN HasKey(B, k) /\ IsScalarOrNone(DictGet(B, k)) =>
         /\ HasKey(flat, Q \o Sep3 \o k)
         /\ DictGet(flat, Q \o Sep3 \o k) = CellOf(DictGet(B, k))
  ELSE \A i \in 1..Len(B.items) :
         HasKey(B.items[i], k) /\ IsScalarOrNone(DictGet(B.items[i], k)) =>
           LET col == Q \o Sep3 \o k \o Sep3 \o IndexText(i)
           IN HasKey(flat, col) /\ DictGet(flat, col) = CellOf(DictGet(B.items[i], k))

\* C12 (as stated): for a scoped rule {path P, keys Ks} and two sibling
\* containers A and B of a row, A's path ending with or containing P and
\* B's path neither, no column under A derives from a key of Ks, and every
\* key of Ks that B holds keeps its column under B with its value.
C12_AsStated ==
  \A r \in 1..Len(all_flat) : \A u \in 1..Len(exclude_keys_in_path) :
    LET P == Strip(exclude_keys_in_path[u].path)
        Ks == SeqToSet(exclude_keys_in_path[u].keys)
        flat == all_flat[r]
    IN \A par \in SiblingParents(rows_raw[r]) :
         \A ia \in 1..Len(par.obj.pairs) : \A ib \in 1..Len(par.obj.pairs) :
           LET A == par.obj.pairs[ia][2]
               B == par.obj.pairs[ib][2]
               QA == NormName(par.at \o <<par.obj.pairs[ia][1]>>)
               QB == NormName(par.at \o <<par.obj.pairs[ib][1]>>)
           IN ( /\ ia # ib /\ P # <<>>
                /\ IsContainer(A) /\ IsContainer(B)
                /\ InScope(QA, P) /\ ~InScope(QB, P) )
              => \A k \in Ks :
                   /\ \A c \in DictKeys(flat) : ~KeyBelow(c, QA, k)
                   /\ RetainedUnder(flat, B, QB, k)

--------------------------------------------------------------------------
(* Drilling: path_start and path_starts                                    *)

\* number of chains in path_starts
MaxChains == 3

\* rows in which the chains a, a/b, b and "k " resolve to an object, reach a
\* scalar or an array, or miss a key
DrillRows ==
  { Obj2(KeyA, Obj1(KeyB, Obj1(KeyK, One)),
         KeyB, Obj2(KeyK, JNum(2), KeyA, JNum(3))),
    Obj1(KeyA, Obj1(KeyB, One)),
    Obj2(KeyB, Obj1(KeyA, Obj1(KeyB, JNum(3))), KeyK, One),
    Obj1(KeyA, JArr(<< Obj1(KeyB, One) >>)),
    Obj2(<<"k", " ">>, Obj1(KeyB, JNum(4)), KeyB, Obj1(KeyA, One)),
    Obj1(KeyK, One) }

DrillDocs == {JArr(q) : q \in SeqsUpTo(DrillRows, MaxRows) \ {<<>>}}

DrillChains == {<<KeyA>>, <<KeyA, KeyB>>, <<KeyB>>, << <<"k", " ">> >>}

\* the path_starts lists: up to MaxChains different chains
DrillChainLists ==
  {q \in SeqsUpTo(DrillChains, MaxChains) :
     \A i \in 1..Len(q) : \A j \in 1..Len(q) : i # j => q[i] # q[j]}

\* a call with path_start alone, or with path_starts
InitDrill ==
  /\ InitFrom(DrillDocs, {DEFAULT_PATH_SEP}, DrillChains \cup {<<>>},
              DrillChainLists, {<<>>}, NoRules,
              Defaults, Defaults)
  /\ path_starts # <<>> => path_start = <<>>

SpecDrill == InitDrill /\ [][Next]_vars

\* the value reached by following the chain from v: [found |-> FALSE] when
\* a key is missing or a value on the way is not an object
RECURSIVE Follow(_, _)
Follow(v, chain) ==
  IF chain = <<>> THEN [found |-> TRUE, value |-> v]
  ELSE IF v.tag = "obj" /\ \E j \in 1..Len(v.pairs) : v.pairs[j][1] = Head(chain)
       THEN Follow(DictGet(v, Head(chain)), Tail(chain))
       ELSE [found |-> FALSE]

\* the chain resolves to an object in the row
Resolves(row, chain) ==
  Follow(row, chain).found /\ Follow(row, chain).value.tag = "obj"

\* C13: with path_start = C and no path_starts, there is one flat row per
\* extracted row: the flattening of the object that C reaches from the row
\* root, so that the column names start below that object, or of the whole
\* row when C does not resolve to an object.
C13_PathStart ==
  (path_starts = <<>> /\ pc \in {"include", "order", "done"}) =>
    /\ Len(all_flat) = Len(ExtractRows(data))
    /\ \A r \in 1..Len(all_flat) :
         LET row == ExtractRows(data)[r]
             body == IF Resolves(row, path_start)
                     THEN Follow(row, path_start).value ELSE row
         IN all_flat[r] = FlattenRow(body, path_sep, exclude_set, exclude_keys_in_path)

\* a call whose chain resolves in one row, drops a prefix there, and does
\* not resolve in another row
C13_Witness ==
  /\ pc = "done" /\ path_starts = <<>> /\ Len(path_start) = 2
  /\ Len(all_flat) = 2
  /\ Resolves(rows_original[1], path_start)
  /\ ~Resolves(rows_original[2], path_start)
  /\ HasKey(all_flat[1], KeyK)
  /\ all_flat[2] = FlattenRow(rows_original[2], path_sep, {}, <<>>)
  /\ all_flat[2] # EmptyDict

\* the columns chain i of path_starts writes into the flat row of the
\* extracted row: the flattened body for the first chain, and for a later
\* chain that resolves to an object the flattened object with every column
\* renamed by Rename(last segment of the chain, column)
ChainColumns(row, i, Rename(_, _)) ==
  LET chain == path_starts[i]
      flatOf(obj) == FlattenRow(obj, path_sep, exclude_set, exclude_keys_in_path)
  IN IF i = 1
     THEN flatOf(IF Resolves(row, chain) THEN Follow(row, chain).value ELSE row).pairs
     ELSE IF Resolves(row, chain)
          THEN LET sub == flatOf(Follow(row, chain).value).pairs
               IN [j \in 1..Len(sub) |->
                     << IF chain = <<>> THEN sub[j][1]
                        ELSE Rename(chain[Len(chain)], sub[j][1]),
                        sub[j][2] >>]
          ELSE <<>>

\* flat is the union of the chains' columns, a column written by several
\* chains holding the value of the last of them
MergedFrom(flat, row, Rename(_, _)) ==
  LET n == Len(path_starts)
      names(i) == {ChainColumns(row, i, Rename)[j][1] :
                     j \in 1..Len(ChainColumns(row, i, Rename))}
      valueIn(i, c) ==
        LET cols == ChainColumns(row, i, Rename)
        IN cols[CHOOSE j \in 1..Len(cols) : cols[j][1] = c][2]
      last(c) == CHOOSE i \in 1..n :
                   c \in names(i) /\ \A h \in 1..n : c \in names(h) => h <= i
  IN /\ DictKeys(flat) = UNION {names(i) : i \in 1..n}
     /\ \A c \in DictKeys(flat) : DictGet(flat, c) = valueIn(last(c), c)

RawPrefixed(seg, col) == seg \o Sep3 \o col

NormPrefixed(seg, col) ==
  IF NormKey(seg) = <<>> THEN col ELSE NormKey(seg) \o Sep3 \o col

PathStartsGiven == path_starts # <<>> /\ pc = "done"

\* C14 (as stated): with path_starts = [C0, ..., Cn] each flat row is the
\* flattening of the row drilled by C0 plus, for every later chain that
\* resolves to an object in the original row, that object's columns renamed
\* to <last segment of the chain> - <column>, the later chain winning.
C14_AsStated ==
  PathStartsGiven =>
    \A r \in 1..Len(all_flat) :
      MergedFrom(all_flat[r], ExtractRows(data)[r], RawPrefixed)

\* C14 (amended): the same with the columns of a later chain renamed to
\* <normalised last segment> - <column> ("-" turned into "_", blanks at the
\* ends removed), and left as they are when that segment normalises to
\* nothing.
C14_NormalisedPrefix ==
  PathStartsGiven =>
    /\ Len(all_flat) = Len(ExtractRows(data))
    /\ \A r \in 1..Len(all_flat) :
         MergedFrom(all_flat[r], ExtractRows(data)[r], NormPrefixed)

\* a row drilled by the first chain into which a later chain wrote over one
\* of its columns, and a third chain added a column
C14_Witness ==
  /\ pc = "done" /\ Len(path_starts) = 3
  /\ \E r \in 1..Len(all_flat) :
       LET row == rows_original[r]
           main == FlattenRow(rows_raw[r], path_sep, exclude_set, exclude_keys_in_path)
       IN /\ Resolves(row, path_starts[1])
          /\ Resolves(row, path_starts[2])
          /\ Resolves(row, path_starts[3])
          /\ \E c \in DictKeys(main) : DictGet(main, c) # DictGet(all_flat[r], c)
          /\ Cardinality(DictKeys(all_flat[r])) > Cardinality(DictKeys(main))

--------------------------------------------------------------------------
(* xlsx_exporter.py: cell values                                           *)

\* a Python float: finite with a whole part and the digits after the point
\* (none when the value is integral), or nan, or inf
PyFloat(kind, neg, whole, frac) ==
  [tag |-> "float", kind |-> kind, neg |-> neg, whole |-> whole, frac |-> frac]
FloatOfInt(n) == PyFloat("fin", n < 0, IF n < 0 THEN -n ELSE n, <<>>)

\* str(f) of a float
FloatStr(f) ==
  (IF f.neg THEN <<"-">> ELSE <<>>) \o
  (CASE f.kind = "nan" -> <<"n", "a", "n">>
     [] f.kind = "inf" -> <<"i", "n", "f">>
     [] OTHER -> NatToStr(f.whole) \o <<".">> \o (IF f.frac = <<>> THEN <<"0">> ELSE f.frac))

\* str(v) of a cell value
StrOf(v) ==
  CASE v.tag = "null" -> <<"N", "o", "n", "e">>
    [] v.tag = "bool" -> (IF v.b THEN <<"T", "r", "u", "e">> ELSE <<"F", "a", "l", "s", "e">>)
    [] v.tag = "num" -> IntToStr(v.n)
    [] v.tag = "float" -> FloatStr(v)
    [] OTHER -> v.s

IsEmptyText(v) == v.tag = "str" /\ v.s = <<>>

\* _cell_value(v): <<cell type, text>>
CellValue(v) ==
  IF v.tag = "null" \/ IsEmptyText(v) THEN <<"s", <<>>>>
  ELSE IF v.tag = "bool" THEN <<"s", IF v.b THEN <<"t", "r", "u", "e">> ELSE <<"f", "a", "l", "s", "e">>>>
  ELSE IF v.tag \in {"num", "float"} THEN <<"n", StrOf(v)>>
  ELSE <<"s", StrOf(v)>>

\* the digits of an int() literal without its sign: digits, single
\* underscores allowed between them
IsIntBody(s) ==
  /\ s # <<>>
  /\ \A j \in 1..Len(s) : s[j] \in Digits \/ s[j] = "_"
  /\ s[1] \in Digits /\ s[Len(s)] \in Digits
  /\ \A j \in 1..(Len(s) - 1) : ~(s[j] = "_" /\ s[j + 1] = "_")

DropUnderscores(s) == SelectSeq(s, LAMBDA c : c # "_")

\* the text after an optional sign
Unsigned(s) == IF s # <<>> /\ s[1] \in {"+", "-"} THEN Tail(s) ELSE s
IsNegative(s) == s # <<>> /\ s[1] = "-"

\* digits without their trailing zeros
RECURSIVE DropTrailingZeros(_)
DropTrailingZeros(s) ==
  IF s # <<>> /\ s[Len(s)] = "0" THEN DropTrailingZeros(SubSeq(s, 1, Len(s) - 1)) ELSE s

\* float(int(s)) for a stripped text s, or PyNone on ValueError
IntParse(s) ==
  IF IsIntBody(Unsigned(s))
  THEN PyFloat("fin", IsNegative(s), StrToNat(DropUnderscores(Unsigned(s))), <<>>)
  ELSE PyNone

\* float(s) for a stripped text s over digits, sign, point, blank and
\* lower-case letters, or PyNone on ValueError
FloatParse(s) ==
  LET u == Unsigned(s)
      dots == {j \in 1..Len(u) : u[j] = "."}
      dot == CHOOSE j \in dots : TRUE
      whole == SubSeq(u, 1, dot - 1)
      frac == SubSeq(u, dot + 1, Len(u))
  IN IF u = <<"n", "a", "n">> THEN PyFloat("nan", IsNegative(s), 0, <<>>)
     ELSE IF u = <<"i", "n", "f">> \/ u = <<"i", "n", "f", "i", "n", "i", "t", "y">> THEN PyFloat("inf", IsNegative(s), 0, <<>>)
     ELSE IF IsIntBody(u)
          THEN PyFloat("fin", IsNegative(s), StrToNat(DropUnderscores(u)), <<>>)
     ELSE IF /\ Cardinality(dots) = 1
             /\ whole # <<>> \/ frac # <<>>
             /\ whole = <<>> \/ IsIntBody(whole)
             /\ frac = <<>> \/ IsIntBody(frac)
          THEN PyFloat("fin", IsNegative(s),
                       IF whole = <<>> THEN 0 ELSE StrToNat(DropUnderscores(whole)),
                       DropTrailingZeros(DropUnderscores(frac)))
     ELSE PyNone

\* _to_integer_value(val): a float, or PyNone
ToIntegerValue(val) ==
  IF val.tag = "null" \/ IsEmptyText(val) THEN PyNone
  ELSE IF val.tag = "bool" THEN FloatOfInt(IF val.b THEN 1 ELSE 0)
  ELSE IF val.tag = "num" THEN FloatOfInt(val.n)
  ELSE IF val.tag = "float" THEN val
  ELSE LET s == Strip(StrOf(val))
       IN IF s = <<>> THEN PyNone
          ELSE IF IntParse(s) # PyNone THEN IntParse(s)
          ELSE FloatParse(s)

\* int(f) raises for nan (ValueError) and inf (OverflowError)
IntRaises(f) == f.kind \in {"nan", "inf"}

\* str(int(f) if f == int(f) else f) for a finite float
NumberText(f) ==
  IF f.frac = <<>>
  THEN (IF f.neg /\ f.whole > 0 THEN <<"-">> ELSE <<>>) \o NatToStr(f.whole)
  ELSE FloatStr(f)

--------------------------------------------------------------------------
(* xlsx_exporter.py: dates                                                 *)

IsLeap(y) == (y % 4 = 0 /\ y % 100 # 0) \/ y % 400 = 0

DaysInMonth(y, m) ==
  IF m = 2 THEN (IF IsLeap(y) THEN 29 ELSE 28)
  ELSE IF m \in {4, 6, 9, 11} THEN 30 ELSE 31

\* datetime(y, m, d) does not raise ValueError
IsDate(y, m, d) ==
  /\ y >= 1 /\ y <= 9999
  /\ m >= 1 /\ m <= 12
  /\ d >= 1 /\ d <= DaysInMonth(y, m)

RECURSIVE DaysBeforeMonth(_, _)
DaysBeforeMonth(y, m) ==
  IF m <= 1 THEN 0 ELSE DaysBeforeMonth(y, m - 1) + DaysInMonth(y, m - 1)

\* datetime(y, m, d).toordinal()
Ordinal(y, m, d) ==
  LET p == y - 1
  IN p * 365 + (p \div 4) - (p \div 100) + (p \div 400) + DaysBeforeMonth(y, m) + d

\* _EXCEL_EPOCH = datetime(1899, 12, 30)
EXCEL_EPOCH == Ordinal(1899, 12, 30)

\* float((datetime(y, m, d) - _EXCEL_EPOCH).days)
SerialOf(y, m, d) == FloatOfInt(Ordinal(y, m, d) - EXCEL_EPOCH)

AllDigits(s) == s # <<>> /\ \A j \in 1..Len(s) : s[j] \in Digits

\* datetime.fromisoformat(t) for the first ten characters t of a text over
\* digits, ".", "/" and "-" (CPython 3.11): yyyy-mm-dd or yyyymmdd;
\* PyNone on ValueError
FromIsoFormat(t) ==
  LET y == StrToNat(SubSeq(t, 1, 4))
      ext == /\ Len(t) = 10 /\ t[5] = "-" /\ t[8] = "-"
             /\ AllDigits(SubSeq(t, 1, 4)) /\ AllDigits(SubSeq(t, 6, 7))
             /\ AllDigits(SubSeq(t, 9, 10))
      bas == Len(t) = 8 /\ AllDigits(t)
      m == IF ext THEN StrToNat(SubSeq(t, 6, 7)) ELSE StrToNat(SubSeq(t, 5, 6))
      d == IF ext THEN StrToNat(SubSeq(t, 9, 10)) ELSE StrToNat(SubSeq(t, 7, 8))
  IN IF (ext \/ bas) /\ IsDate(y, m, d) THEN SerialOf(y, m, d) ELSE PyNone

\* int(part) of the day-month-year branch: the signed value, or PyNone
SignedInt(part) ==
  LET f == IntParse(Strip(part))
  IN IF f = PyNone THEN PyNone
     ELSE [tag |-> "int", n |-> IF f.neg THEN 0 - f.whole ELSE f.whole]

\* the body of the loop over (".", "/", "-"), from position i on
RECURSIVE DayMonthYear(_, _)
DayMonthYear(s, i) ==
  LET seps == <<".", "/", "-">>
      parts == Split(s, <<seps[i]>>)
      d == SignedInt(parts[1])
      m == SignedInt(parts[2])
      y0 == SignedInt(parts[3])
      y == IF y0.n < 100 THEN (IF y0.n < 50 THEN y0.n + 2000 ELSE y0.n + 1900)
           ELSE y0.n
  IN IF i > 3 THEN PyNone
     ELSE IF /\ \E j \in 1..Len(s) : s[j] = seps[i]
             /\ Len(s) >= 8
             /\ Len(parts) = 3
             /\ d # PyNone /\ m # PyNone /\ y0 # PyNone
             /\ IsDate(y, m.n, d.n)
          THEN SerialOf(y, m.n, d.n)
     ELSE DayMonthYear(s, i + 1)

\* _to_date_value(val): a float, or PyNone
ToDateValue(val) ==
  IF val.tag = "null" \/ IsEmptyText(val) THEN PyNone
  ELSE IF val.tag = "bool" THEN FloatOfInt(IF val.b THEN 1 ELSE 0)
  ELSE IF val.tag = "num" THEN FloatOfInt(val.n)
  ELSE IF val.tag = "float" THEN val
  ELSE LET s == Strip(StrOf(val))
           iso == FromIsoFormat(SubSeq(s, 1, IF Len(s) < 10 THEN Len(s) ELSE 10))
       IN IF s = <<>> THEN PyNone
          ELSE IF iso # PyNone THEN iso
          ELSE DayMonthYear(s, 1)

--------------------------------------------------------------------------
(* xlsx_exporter.py: write_xlsx                                            *)

\* row.get(c, "")
RowGet(row, c) == IF HasKey(row, c) THEN DictGet(row, c) ELSE JStr(<<>>)

\* (sheet_column_format or {}).get(col_name) or (sheet_default_format or {}),
\* then .get("number_format")
NumberFormatOf(cf, df, col_name) ==
  IF \E j \in 1..Len(cf) : cf[j][1] = col_name
  THEN cf[CHOOSE j \in 1..Len(cf) : cf[j][1] = col_name][2]
  ELSE df.number_format

\* _has_integer / _has_date for one sheet
HasFormat(cf, df, nf) ==
  \/ \E j \in 1..Len(cf) : cf[j][2] = nf
  \/ df.number_format = nf

\* use_integer_style / use_date_style
UseStyle(cfs, dfs, nf) == \E i \in 1..Len(cfs) : HasFormat(cfs[i], dfs[i], nf)

\* the cellXfs indices: 0 is the default style; the integer, date, header and
\* data styles follow for the features in use (header and data features are
\* read from the default format of the first sheet)
StyleIndices(cfs, dfs) ==
  LET use_integer_style == UseStyle(cfs, dfs, "integer")
      use_date_style == UseStyle(cfs, dfs, "date")
      header_style == dfs # <<>> /\ dfs[1].header_bold
      data_style_needed == dfs # <<>> /\ dfs[1].wrap_text
      Bit(b) == IF b THEN 1 ELSE 0
      i1 == 1
      i2 == i1 + Bit(use_integer_style)
      i3 == i2 + Bit(use_date_style)
      i4 == i3 + Bit(header_style)
  IN [integer |-> IF use_integer_style THEN i1 ELSE 0,
      date |-> IF use_date_style THEN i2 ELSE 0,
      header |-> IF header_style THEN i3 ELSE 0,
      data |-> IF data_style_needed THEN i4 ELSE 0]

\* a collection that records a dash for the empty values
CollectedTextMutSkipEmpty(val) ==
  IF val.tag = "null" \/ IsEmptyText(val) THEN <<"-">>
  ELSE IF val.tag = "bool" THEN BoolLower(val.b)
  ELSE StrOf(val)

\* the text one cell adds to all_strings: text, boolean, None and "" by the
\* first branch, every other value by str(val)
CollectedText(val) ==
  IF val.tag \in {"str", "bool", "null"}
  THEN (IF val.tag = "bool" THEN BoolLower(val.b)
        ELSE IF val.tag = "null" THEN <<>> ELSE StrOf(val))
  ELSE StrOf(val)

RECURSIVE RowStrings(_, _)
RowStrings(row, cols) ==
  IF cols = <<>> THEN <<>>
  ELSE <<CollectedText(RowGet(row, Head(cols)))>> \o RowStrings(row, Tail(cols))

RECURSIVE RowsStrings(_, _)
RowsStrings(rows, cols) ==
  IF rows = <<>> THEN <<>>
  ELSE RowStrings(Head(rows), cols) \o RowsStrings(Tail(rows), cols)

\* the loop that fills all_strings
RECURSIVE CollectAll(_)
CollectAll(sheets) ==
  IF sheets = <<>> THEN <<>>
  ELSE Head(sheets).columns \o RowsStrings(Head(sheets).rows, Head(sheets).columns)
       \o CollectAll(Tail(sheets))

\* _build_shared_strings: the list unique; idx_map[u] is the position of u
\* (uniq holds the keys met so far: each string is appended at its first
\* occurrence)
\* occurrence; seen and first are bound by a quantifier so that they are
\* computed once)
BuildSharedStrings(strings, uniq) ==
  LET FirstIn(seen) == {j \in 1..Len(seen) : \A k \in 1..(j - 1) : seen[k] # seen[j]}
      Rank(first, j) == Cardinality({k \in first : k <= j})
  IN CHOOSE u \in
       { [n \in 1..Cardinality(sf[2]) |-> sf[1][CHOOSE j \in sf[2] : Rank(sf[2], j) = n]] :
           sf \in { <<seen, FirstIn(seen)>> : seen \in {uniq \o strings} } } : TRUE

\* str_index.get(text, 0)
StrIndexGet(uniq, text) ==
  IF \E j \in 1..Len(uniq) : uniq[j] = text
  THEN (CHOOSE j \in 1..Len(uniq) : uniq[j] = text) - 1
  ELSE 0

\* a <c> element: its type, the text of <v> and the style (0 when no s attribute)
Cell(t, v, s) == [t |-> t, v |-> v, s |-> s]

\* the text cell of _cell_value(val) with the given style
PlainCell(uniq, val, s) ==
  LET cv == CellValue(val)
  IN IF cv[1] = "s" THEN Cell("s", NatToStr(StrIndexGet(uniq, cv[2])), s)
     ELSE Cell("n", cv[2], s)

\* the conversion of a forced column: a float, or PyNone
Converted(nf, val) ==
  IF nf = "integer" THEN ToIntegerValue(val)
  ELSE IF nf = "date" THEN ToDateValue(val)
  ELSE PyNone

\* building the cell raises: int() of nan or inf
CellRaises(st, nf, val) ==
  /\ (nf = "integer" /\ st.integer > 0) \/ (nf = "date" /\ st.date > 0)
  /\ Converted(nf, val) # PyNone
  /\ IntRaises(Converted(nf, val))

\* one data cell of make_worksheet_xml
DataCell(uniq, st, nf, val) ==
  LET is_integer_format == nf = "integer" /\ st.integer > 0
      is_date_format == nf = "date" /\ st.date > 0
      cell_style_s == IF is_integer_format THEN st.integer
                      ELSE IF is_date_format THEN st.date
                      ELSE st.data
      num == Converted(nf, val)
  IN IF is_integer_format \/ is_date_format
     THEN (IF num # PyNone THEN Cell("n", NumberText(num), cell_style_s)
           ELSE PlainCell(uniq, val, st.data))
     ELSE PlainCell(uniq, val, cell_style_s)

HeaderCell(uniq, st, col_name) ==
  Cell("s", NatToStr(StrIndexGet(uniq, col_name)), st.header)

\* make_worksheet_xml: the header row and the data rows
MakeWorksheetXml(sheet, cf, df, uniq, st) ==
  [header |-> [j \in 1..Len(sheet.columns) |-> HeaderCell(uniq, st, sheet.columns[j])],
   rows |-> [r \in 1..Len(sheet.rows) |->
              [j \in 1..Len(sheet.columns) |->
                DataCell(uniq, st, NumberFormatOf(cf, df, sheet.columns[j]),
                         RowGet(sheet.rows[r], sheet.columns[j]))]]]

WorksheetRaises(sheet, cf, df, st) ==
  \E r \in 1..Len(sheet.rows), j \in 1..Len(sheet.columns) :
    CellRaises(st, NumberFormatOf(cf, df, sheet.columns[j]),
               RowGet(sheet.rows[r], sheet.columns[j]))

\* a code point str.encode("utf-8") rejects (a lone surrogate)
LoneSurrogate == "\\ud800"
Encodable(text) == \A j \in 1..Len(text) : text[j] # LoneSurrogate

\* the entries of the container, in the order they are written
Part(name, n) == [name |-> name, n |-> n]
FixedParts ==
  << Part("[Content_Types].xml", 0), Part("_rels/.rels", 0),
     Part("docProps/core.xml", 0), Part("docProps/app.xml", 0),
     Part("xl/_rels/workbook.xml.rels", 0), Part("xl/workbook.xml", 0),
     Part("xl/sharedStrings.xml", 0), Part("xl/styles.xml", 0) >>
RequiredParts(n) == FixedParts \o [i \in 1..n |-> Part("xl/worksheets/sheet.xml", i)]

\* zf.writestr(name, text) raises UnicodeEncodeError
PartUnencodable(part) ==
  \/ part.name = "xl/sharedStrings.xml" /\ \E j \in 1..Len(unique) : ~Encodable(unique[j])
  \/ part.name = "xl/workbook.xml" /\ \E i \in 1..Len(sheets_data) : ~Encodable(sheets_data[i].name)

\* lines 331-346: the shared-string table
CollectStrings ==
  /\ wpc = "collect"
  /\ all_strings' = CollectAll(sheets_data)
  /\ unique' = BuildSharedStrings(CollectAll(sheets_data), <<>>)
  /\ wpc' = "styles"
  /\ UNCHANGED <<sheets_data, column_formats, default_formats, styles, sheet_xmls, out_file, excel_col>>
  /\ UNCHANGED <<flattener, runner>>

\* lines 506-640: styles.xml and the style indices
BuildStyles ==
  /\ wpc = "styles"
  /\ styles' = StyleIndices(column_formats, default_formats)
  /\ wpc' = "sheets"
  /\ UNCHANGED <<sheets_data, column_formats, default_formats, all_strings, unique, sheet_xmls, out_file, excel_col>>
  /\ UNCHANGED <<flattener, runner>>

\* chr(ord("A") + n) for n in 0..25
Letter(n) ==
  <<"A", "B", "C", "D", "E", "F", "G", "H", "I", "J", "K", "L", "M",
    "N", "O", "P", "Q", "R", "S", "T", "U", "V", "W", "X", "Y", "Z">>[n + 1]

\* the letters a call of _excel_col records; the list of the code grows
\* without limit, its elements past MaxColLetters are not recorded
MaxColLetters == 3
Recorded(result, c) == IF Len(result) < MaxColLetters THEN Append(result, c) ELSE result

\* "".join(reversed(result))
RECURSIVE Reversed(_)
Reversed(result) ==
  IF result = <<>> THEN <<>> ELSE Reversed(Tail(result)) \o <<Head(result)>>

\* lines 642-680, 365-366: the next pass of the loop over the sheets enters
\* make_worksheet_xml, which calls _excel_col(len(columns) - 1) for the
\* dimension of the sheet
StartDimension ==
  /\ wpc = "sheets"
  /\ Len(sheet_xmls) < Len(sheets_data)
  /\ excel_col' = [i |-> Len(sheets_data[Len(sheet_xmls) + 1].columns) - 1, result |-> <<>>]
  /\ wpc' = "dim"
  /\ UNCHANGED <<sheets_data, column_formats, default_formats, all_strings, unique, styles, sheet_xmls, out_file>>
  /\ UNCHANGED <<flattener, runner>>

\* lines 28-33: one pass of the while loop of _excel_col; the break returns
\* to make_worksheet_xml
ExcelColStep ==
  /\ wpc = "dim"
  /\ LET result == Recorded(excel_col.result, Letter(excel_col.i % 26))
         i == excel_col.i \div 26
     IN IF i = 0
        THEN excel_col' = [i |-> i, result |-> result] /\ wpc' = "cells"
        ELSE excel_col' = [i |-> i - 1, result |-> result] /\ wpc' = "dim"
  /\ UNCHANGED <<sheets_data, column_formats, default_formats, all_strings, unique, styles, sheet_xmls, out_file>>
  /\ UNCHANGED <<flattener, runner>>

\* lines 367-504: the rest of make_worksheet_xml; an exception leaves
\* write_xlsx
MakeWorksheet ==
  /\ wpc = "cells"
  /\ Len(sheet_xmls) < Len(sheets_data)
  /\ LET i == Len(sheet_xmls) + 1
     IN IF WorksheetRaises(sheets_data[i], column_formats[i], default_formats[i], styles)
        THEN wpc' = "raised" /\ sheet_xmls' = sheet_xmls
        ELSE /\ sheet_xmls' = Append(sheet_xmls,
                  MakeWorksheetXml(sheets_data[i], column_formats[i], default_formats[i], unique, styles))
             /\ wpc' = "sheets"
  /\ UNCHANGED <<sheets_data, column_formats, default_formats, all_strings, unique, styles, out_file, excel_col>>
  /\ UNCHANGED <<flattener, runner>>

\* lines 682-760: the remaining parts are built and zipfile.ZipFile(out_path, "w")
\* creates or truncates the target
OpenZip ==
  /\ wpc = "sheets"
  /\ Len(sheet_xmls) = Len(sheets_data)
  /\ out_file' = [state |-> "open", entries |-> <<>>]
  /\ wpc' = "zip"
  /\ UNCHANGED <<sheets_data, column_formats, default_formats, all_strings, unique, styles, sheet_xmls, excel_col>>
  /\ UNCHANGED <<flattener, runner>>

\* lines 761-770: the next zf.writestr; UnicodeEncodeError leaves the with
\* block, whose exit closes the archive as it is
WriteEntry ==
  /\ wpc = "zip"
  /\ Len(out_file.entries) < Len(RequiredParts(Len(sheets_data)))
  /\ LET part == RequiredParts(Len(sheets_data))[Len(out_file.entries) + 1]
     IN IF PartUnencodable(part)
        THEN /\ out_file' = [out_file EXCEPT !.state = "closed"]
             /\ wpc' = "raised"
        ELSE /\ out_file' = [out_file EXCEPT !.entries = Append(@, part)]
             /\ wpc' = "zip"
  /\ UNCHANGED <<sheets_data, column_formats, default_formats, all_strings, unique, styles, sheet_xmls, excel_col>>
  /\ UNCHANGED <<flattener, runner>>

\* lines 761-770: zf.writestr raises OSError (the device is full or gone);
\* the exit of the with block closes the archive as it is
WriteEntryFails ==
  /\ wpc = "zip"
  /\ Len(out_file.entries) < Len(RequiredParts(Len(sheets_data)))
  /\ out_file' = [out_file EXCEPT !.state = "closed"]
  /\ wpc' = "raised"
  /\ UNCHANGED <<sheets_data, column_formats, default_formats, all_strings, unique, styles, sheet_xmls, excel_col>>
  /\ UNCHANGED <<flattener, runner>>

\* line 770-772: the with block ends, write_xlsx returns
CloseZip ==
  /\ wpc = "zip"
  /\ Len(out_file.entries) = Len(RequiredParts(Len(sheets_data)))
  /\ out_file' = [out_file EXCEPT !.state = "closed"]
  /\ wpc' = "returned"
  /\ UNCHANGED <<sheets_data, column_formats, default_formats, all_strings, unique, styles, sheet_xmls, excel_col>>
  /\ UNCHANGED <<flattener, runner>>

NextXlsx ==
  \/ CollectStrings
  \/ BuildStyles
  \/ StartDimension
  \/ ExcelColStep
  \/ MakeWorksheet
  \/ OpenZip
  \/ WriteEntry
  \/ WriteEntryFails
  \/ CloseZip

--------------------------------------------------------------------------
(* write_xlsx: bounded workbooks                                           *)

\* flatten_json_data has not been called
FlattenerIdle ==
  /\ data = JNull /\ path_sep = DEFAULT_PATH_SEP
  /\ path_start = <<>> /\ path_starts = <<>>
  /\ exclude_keys = <<>> /\ exclude_keys_in_path = <<>>
  /\ include_only_keys = PyNone /\ column_order = PyNone
  /\ pc = "idle"
  /\ rows_original = <<>> /\ rows_raw = <<>>
  /\ all_flat = <<>> /\ all_keys = {} /\ columns = <<>>

MaxSheetRows == 2

Sheet(name, rows, cols) == [name |-> name, rows |-> rows, columns |-> cols]
Format(nf, wrap, bold) == [number_format |-> nf, wrap_text |-> wrap, header_bold |-> bold]
NoFormat == Format("none", FALSE, FALSE)

XlsxValues ==
  { JStr(<<"4", "2">>), JStr(<<"a", "b", "c">>), JStr(<<>>), JStr(<<"n", "a", "n">>), JStr(<<" ", "7", " ">>),
    JStr(<<"a", LoneSurrogate>>), JNum(42), JBool(TRUE), JNull,
    PyFloat("fin", FALSE, 42, <<"5">>) }

\* the sheets with the single column a
ColumnSheets ==
  { Sheet(<<"S">>, [r \in DOMAIN vs |-> Obj1(KeyA, vs[r])], <<KeyA>>) :
      vs \in UNION {[1..n -> XlsxValues] : n \in 0..MaxSheetRows} }

\* the formats of the first sheet: <<column_format, default_column_format>>
FirstFormats ==
  { << <<>>, NoFormat >>,
    << << <<KeyA, "integer">> >>, NoFormat >>,
    << << <<KeyA, "integer">> >>, Format("none", TRUE, TRUE) >>,
    << <<>>, Format("integer", TRUE, FALSE) >>,
    << << <<KeyA, "date">> >>, Format("none", FALSE, TRUE) >>,
    << << <<KeyA, "text">> >>, Format("integer", FALSE, FALSE) >> }

\* the sheets that may follow the first one, with their formats
MoreSheets ==
  { << <<>>, <<>>, <<>> >>,
    << << Sheet(<<"T">>, << Obj2(KeyA, JStr(<<"a", "b", "c">>), KeyB, JNum(42)), Obj1(KeyA, JBool(TRUE)) >>,
                <<KeyA, KeyB>>) >>,
       << << <<KeyB, "integer">> >> >>, << NoFormat >> >>,
    << << Sheet(<<"U">>, << Obj1(KeyB, JStr(<<"4", "2">>)) >>, <<KeyB, KeyA>>) >>,
       << <<>> >>, << Format("none", TRUE, FALSE) >> >> }

\* write_xlsx is entered with its arguments bound
InitXlsx ==
  /\ FlattenerIdle
  /\ RunnerIdle
  /\ \E s \in ColumnSheets, f \in FirstFormats, m \in MoreSheets :
       /\ sheets_data = <<s>> \o m[1]
       /\ column_formats = <<f[1]>> \o m[2]
       /\ default_formats = <<f[2]>> \o m[3]
  /\ wpc = "collect"
  /\ all_strings = <<>> /\ unique = <<>> /\ styles = NoStyles
  /\ sheet_xmls = <<>> /\ out_file = Untouched
  /\ excel_col = NoCall

SpecXlsx == InitXlsx /\ [][NextXlsx]_vars

--------------------------------------------------------------------------
(* Columns forced to the integer format                                    *)

\* the cells of the columns whose format is "integer": <<sheet, row, column>>
IntegerCells ==
  { p \in UNION {{i} \X (1..Len(sheets_data[i].rows)) \X (1..Len(sheets_data[i].columns)) :
                   i \in 1..Len(sheets_data)} :
      NumberFormatOf(column_formats[p[1]], default_formats[p[1]],
                     sheets_data[p[1]].columns[p[3]]) = "integer" }

ValueAt(p) == RowGet(sheets_data[p[1]].rows[p[2]], sheets_data[p[1]].columns[p[3]])

\* int(s) or float(s) accepts the value
ParsesAsNumber(val) == ToIntegerValue(val) # PyNone

\* the worksheet of the cell has been built
Built(p) == p[1] <= Len(sheet_xmls)
CellAt(p) == sheet_xmls[p[1]].rows[p[2]][p[3]]

\* the loop over the sheets stopped with an exception at the sheet of the cell
StoppedAt(p) == wpc = "raised" /\ out_file = Untouched /\ p[1] = Len(sheet_xmls) + 1

\* C15 (as stated): in a column forced to the integer format, a value that
\* parses as a number is written as a numeric cell carrying that number, and
\* every other value as a shared-string cell with the data style and not the
\* integer style.
C15_AsStated ==
  \A p \in IntegerCells :
    /\ Built(p) =>
         IF ParsesAsNumber(ValueAt(p))
         THEN /\ CellAt(p).t = "n"
              /\ CellAt(p).v = NumberText(ToIntegerValue(ValueAt(p)))
         ELSE /\ CellAt(p).t = "s"
              /\ CellAt(p).s = styles.data
              /\ CellAt(p).s # styles.integer
    /\ ~(StoppedAt(p) /\ ParsesAsNumber(ValueAt(p)) /\ IntRaises(ToIntegerValue(ValueAt(p))))

--------------------------------------------------------------------------
(* Date spellings                                                          *)

\* n as decimal digits, zero-padded to the given width
RECURSIVE Padded(_, _)
Padded(n, width) ==
  IF Len(NatToStr(n)) >= width THEN NatToStr(n)
  ELSE <<"0">> \o Padded(n, width - 1)

\* yyyy-mm-dd
IsoSpelling(y, m, d) == Padded(y, 4) \o <<"-">> \o Padded(m, 2) \o <<"-">> \o Padded(d, 2)
\* dd<sep>mm<sep>yyyy
DmySpelling(y, m, d, sep) == Padded(d, 2) \o <<sep>> \o Padded(m, 2) \o <<sep>> \o Padded(y, 4)

KeyD == <<"d">>
DateYears == {1, 49, 50, 99, 100, 1899, 1900, 2000, 2020, 2024, 9999}
DateDays == {1, 28, 29, 30, 31}
Dates == {ymd \in DateYears \X (1..12) \X DateDays : IsDate(ymd[1], ymd[2], ymd[3])}

\* one row per spelling of the date, in the column d
SpellingRows(y, m, d) ==
  << Obj1(KeyD, JStr(IsoSpelling(y, m, d))),
     Obj1(KeyD, JStr(DmySpelling(y, m, d, "."))),
     Obj1(KeyD, JStr(DmySpelling(y, m, d, "/"))),
     Obj1(KeyD, JStr(DmySpelling(y, m, d, "-"))) >>

\* write_xlsx is entered with one sheet whose column d has the date format
InitDates ==
  /\ FlattenerIdle
  /\ RunnerIdle
  /\ \E ymd \in Dates :
       sheets_data = << Sheet(<<"D">>, SpellingRows(ymd[1], ymd[2], ymd[3]), <<KeyD>>) >>
  /\ column_formats = << << <<KeyD, "date">> >> >>
  /\ default_formats = << NoFormat >>
  /\ wpc = "collect"
  /\ all_strings = <<>> /\ unique = <<>> /\ styles = NoStyles
  /\ sheet_xmls = <<>> /\ out_file = Untouched
  /\ excel_col = NoCall

SpecDates == InitDates /\ [][NextXlsx]_vars

\* the date the rows of the sheet spell: <<year, month, day>>
SheetDate ==
  LET s == DictGet(sheets_data[1].rows[1], KeyD).s
  IN <<StrToNat(SubSeq(s, 1, 4)), StrToNat(SubSeq(s, 6, 7)), StrToNat(SubSeq(s, 9, 10))>>

\* C16 (as stated): for every valid calendar date, _to_date_value gives the
\* same day count for yyyy-mm-dd, dd.mm.yyyy, dd/mm/yyyy and dd-mm-yyyy, and
\* the four cells of the date column carry the same number.
C16_AsStated ==
  LET ymd == SheetDate
      iso == ToDateValue(JStr(IsoSpelling(ymd[1], ymd[2], ymd[3])))
  IN /\ ymd \in Dates
     /\ sheets_data[1].rows = SpellingRows(ymd[1], ymd[2], ymd[3])
     /\ iso # PyNone
     /\ \A sep \in {".", "/", "-"} :
          ToDateValue(JStr(DmySpelling(ymd[1], ymd[2], ymd[3], sep))) = iso
     /\ sheet_xmls # <<>> =>
          \A r \in 1..4 : sheet_xmls[1].rows[r][1] = sheet_xmls[1].rows[1][1]

--------------------------------------------------------------------------
(* The shared-string table                                                 *)

\* the cells of the workbook: <<sheet, row, column>>
AllCells ==
  UNION {{i} \X (1..Len(sheets_data[i].rows)) \X (1..Len(sheets_data[i].columns)) :
           i \in 1..Len(sheets_data)}

HeaderNames ==
  UNION {{sheets_data[i].columns[j] : j \in 1..Len(sheets_data[i].columns)} :
           i \in 1..Len(sheets_data)}

\* the value is a text, a boolean or empty (None or "")
IsTextValue(val) == val.tag \in {"str", "bool", "null"}

\* the texts of the header names and of the text, boolean and empty values
TableTexts == HeaderNames \union {CellValue(ValueAt(p))[2] : p \in {q \in AllCells : IsTextValue(ValueAt(q))}}

Occurrences(text) == Cardinality({j \in 1..Len(unique) : unique[j] = text})

\* the shared-string table is built
TableBuilt == wpc \notin {"idle", "collect"}

\* C17 (as stated): the one shared-string table of the workbook holds every
\* header name and every text, boolean or empty cell value exactly once, and
\* nothing that is only the value of a numeric cell.
C17_AsStated ==
  TableBuilt =>
    /\ \A text \in TableTexts : Occurrences(text) = 1
    /\ \A j \in 1..Len(unique) : unique[j] \in TableTexts

\* the cell refers to an entry of the table, and the entry is the text
RefersTo(cell, text) ==
  /\ cell.t = "s"
  /\ AllDigits(cell.v)
  /\ StrToNat(cell.v) < Len(unique)
  /\ unique[StrToNat(cell.v) + 1] = text

\* C18: in every worksheet built, every header cell and every data cell of
\* type shared-string carries an index below the number of unique strings,
\* and the entry at that index is the text of the cell.
C18_ValidIndices ==
  \A i \in 1..Len(sheet_xmls) :
    /\ \A j \in 1..Len(sheets_data[i].columns) :
         RefersTo(sheet_xmls[i].header[j], sheets_data[i].columns[j])
    /\ \A r \in 1..Len(sheets_data[i].rows), j \in 1..Len(sheets_data[i].columns) :
         sheet_xmls[i].rows[r][j].t = "s" =>
           RefersTo(sheet_xmls[i].rows[r][j],
                    CellValue(RowGet(sheets_data[i].rows[r], sheets_data[i].columns[j]))[2])

\* a workbook was written in which an empty cell, a text cell of a column
\* forced to the integer format and a cell of a key missing from its row
\* refer to entries other than the first
C18_Witness ==
  /\ wpc = "returned"
  /\ Len(sheet_xmls) = 2
  /\ \E p \in IntegerCells :
       /\ p[1] = 1
       /\ ValueAt(p) = JStr(<<"a", "b", "c">>)
       /\ CellAt(p).t = "s" /\ CellAt(p).v # <<"0">>
  /\ \E p \in AllCells :
       /\ p[1] = 1
       /\ CellValue(ValueAt(p))[2] = <<>>
       /\ CellAt(p).t = "s" /\ CellAt(p).v # <<"0">>
  /\ \E p \in AllCells :
       /\ ~HasKey(sheets_data[p[1]].rows[p[2]], sheets_data[p[1]].columns[p[3]])
       /\ CellAt(p).t = "s" /\ CellAt(p).v # <<"0">>

--------------------------------------------------------------------------
(* What write_xlsx leaves at the target path                               *)

\* write_xlsx has returned or has ended with an exception
Ended == wpc \in {"returned", "raised"}

\* the target holds a closed container with every required part
CompleteContainer ==
  /\ out_file.state = "closed"
  /\ out_file.entries = RequiredParts(Len(sheets_data))

\* C19 (as stated): after write_xlsx has returned or failed, the target path
\* holds either no newly written file or a complete container with all
\* required parts.
C19_AsStated == Ended => (out_file = Untouched \/ CompleteContainer)

--------------------------------------------------------------------------
(* main.py: main                                                           *)

MaxFiles == 3
MaxCpus == 4

\* the sheet name process_one_file derives from the file of config.files[idx]
SheetNameOf(idx) == <<"f">> \o NatToStr(idx)

\* what _process_one_file_standalone returns for that file
ResultOf(idx) == Sheet(SheetNameOf(idx), << Obj1(KeyA, JNum(idx)) >>, <<KeyA>>)

\* the output option of config.files[idx]: the second file is written to CSV only
OutputOf(idx) == IF idx = 2 THEN {"csv"} ELSE {"csv", "xlsx"}

\* a file name of config.files as pathlib splits it: the folders before the
\* last component, the stem and the suffix of the last component
FileName(parent, stem, suffix) == [parent |-> parent, stem |-> stem, suffix |-> suffix]

\* run_timestamp (line 61), one value for the whole run
RunTs == <<"1", "6", "3", "7">>

\* worker.py, lines 37, 62-64: the CSV file of a job lies in the output folder and is
\* named after the stem of the input path and the time stamp of the run
CsvName(name) == name.stem \o <<"_">> \o RunTs \o <<".", "c", "s", "v">>

\* the path the job of config.files[idx] writes its CSV to
CsvPath(idx) == CsvName(config.files[idx])

\* worker.py, lines 65-74: the output folder after the job of config.files[idx]
Written(idx) ==
  IF "csv" \in OutputOf(idx) THEN out_dir \union {CsvPath(idx)} ELSE out_dir

\* max(1, min(multiprocessing.cpu_count() - 1, len(to_process)))
MaxWorkers(cpu_count, n) ==
  LET m == IF cpu_count - 1 < n THEN cpu_count - 1 ELSE n
  IN IF m < 1 THEN 1 ELSE m

\* a list filled in the order the workers finished
StarmapResultMutCompletionOrder(reported, n) == [k \in 1..n |-> reported[k].obj]

\* the list pool.starmap returns: the result of task i at position i
StarmapResult(reported, n) ==
  [k \in 1..n |-> reported[CHOOSE j \in 1..Len(reported) : reported[j].i = k].obj]

\* the results whose file asks for "xlsx", in order
RECURSIVE XlsxSheets(_, _)
XlsxSheets(res, files) ==
  IF res = <<>> THEN <<>>
  ELSE (IF "xlsx" \in OutputOf(Head(files)) THEN <<Head(res)>> ELSE <<>>)
       \o XlsxSheets(Tail(res), Tail(files))

\* lines 65-96: nothing to process ends main; otherwise the pool size is
\* computed and the pool or the loop is chosen
Prepare ==
  /\ mpc = "start"
  /\ IF to_process = <<>>
     THEN mpc' = "returned" /\ max_workers' = max_workers
     ELSE \E cpu_count \in 1..MaxCpus :
            /\ max_workers' = MaxWorkers(cpu_count, Len(to_process))
            /\ mpc' = IF max_workers' >= 2 /\ Len(to_process) > 1 THEN "pool" ELSE "loop"
  /\ UNCHANGED <<to_process, started, running, slots, results, failing, config, freeze_cell_per_sheet, out_dir>>
  /\ UNCHANGED <<flattener, writer>>

\* line 103: a free worker takes the next task of the queue
PoolStart ==
  /\ mpc = "pool"
  /\ Cardinality(running) < max_workers
  /\ Cardinality(started) < Len(to_process)
  /\ LET i == Cardinality(started) + 1
     IN started' = started \union {i} /\ running' = running \union {i}
  /\ UNCHANGED <<mpc, to_process, max_workers, slots, results, failing, config, freeze_cell_per_sheet, out_dir>>
  /\ UNCHANGED <<flattener, writer>>

\* line 103: a worker finishes its task and reports the result
PoolFinish ==
  /\ mpc = "pool"
  /\ \E i \in running :
       /\ to_process[i] \notin failing
       /\ running' = running \ {i}
       /\ slots' = Append(slots, [i |-> i, obj |-> ResultOf(to_process[i])])
       /\ out_dir' = Written(to_process[i])
  /\ UNCHANGED <<mpc, to_process, max_workers, started, results, failing, config, freeze_cell_per_sheet>>
  /\ UNCHANGED <<flattener, writer>>

\* line 103: a task raises; starmap re-raises in main and the exit of the
\* with block terminates the workers
PoolTaskFails ==
  /\ mpc = "pool"
  /\ \E i \in running : to_process[i] \in failing
  /\ running' = {}
  /\ mpc' = "failed"
  /\ UNCHANGED <<to_process, max_workers, started, slots, results, failing, config, freeze_cell_per_sheet, out_dir>>
  /\ UNCHANGED <<flattener, writer>>

\* lines 103-104: every task has reported, starmap returns the list
StarmapReturns ==
  /\ mpc = "pool"
  /\ Len(slots) = Len(to_process)
  /\ results' = StarmapResult(slots, Len(to_process))
  /\ mpc' = "assemble"
  /\ UNCHANGED <<to_process, max_workers, started, running, slots, failing, config, freeze_cell_per_sheet, out_dir>>
  /\ UNCHANGED <<flattener, writer>>

\* lines 107-110: the loop processes the next file and appends its result
LoopStep ==
  /\ mpc = "loop"
  /\ Len(results) < Len(to_process)
  /\ to_process[Len(results) + 1] \notin failing
  /\ results' = Append(results, ResultOf(to_process[Len(results) + 1]))
  /\ out_dir' = Written(to_process[Len(results) + 1])
  /\ UNCHANGED <<mpc, to_process, max_workers, started, running, slots, failing, config, freeze_cell_per_sheet>>
  /\ UNCHANGED <<flattener, writer>>

\* a loop that logs the exception and goes on with an empty sheet
LoopStepFailsMutGoOn ==
  /\ mpc = "loop"
  /\ Len(results) < Len(to_process)
  /\ to_process[Len(results) + 1] \in failing
  /\ results' = Append(results, Sheet(SheetNameOf(to_process[Len(results) + 1]), <<>>, <<>>))
  /\ UNCHANGED <<mpc, to_process, max_workers, started, running, slots, failing, config, freeze_cell_per_sheet, out_dir>>
  /\ UNCHANGED <<flattener, writer>>

\* lines 111-113: the file raises and main re-raises
LoopStepFails ==
  /\ mpc = "loop"
  /\ Len(results) < Len(to_process)
  /\ to_process[Len(results) + 1] \in failing
  /\ mpc' = "failed"
  /\ UNCHANGED <<to_process, max_workers, started, running, slots, results, failing, config, freeze_cell_per_sheet, out_dir>>
  /\ UNCHANGED <<flattener, writer>>

\* line 107: the loop is exhausted
LoopEnds ==
  /\ mpc = "loop"
  /\ Len(results) = Len(to_process)
  /\ mpc' = "assemble"
  /\ UNCHANGED <<to_process, max_workers, started, running, slots, results, failing, config, freeze_cell_per_sheet, out_dir>>
  /\ UNCHANGED <<flattener, writer>>

\* an entry of xlsx.sheets
SheetOptions(cf, df, freeze_cell) ==
  [column_format |-> cf, default_column_format |-> df, freeze_cell |-> freeze_cell]

\* config_loader.get_sheet_options(config, file_index), for the 1-based idx
\* = file_index + 1: without xlsx.sheets the default options, for an index
\* past the list the first entry
GetSheetOptions(cfg, idx) ==
  IF cfg.sheets = <<>> THEN SheetOptions(<<>>, NoFormat, <<>>)
  ELSE IF idx <= Len(cfg.sheets) THEN cfg.sheets[idx]
  ELSE cfg.sheets[1]

\* lines 117-123: sheet_file_indices, the file index of every sheet kept
RECURSIVE SheetFileIndices(_)
SheetFileIndices(files) ==
  IF files = <<>> THEN <<>>
  ELSE (IF "xlsx" \in OutputOf(Head(files)) THEN <<Head(files)>> ELSE <<>>)
       \o SheetFileIndices(Tail(files))

\* line 143: default_freeze, PyNone for None
DefaultFreeze(cfg) ==
  IF Strip(cfg.freeze_cell) # <<>> THEN Strip(cfg.freeze_cell)
  ELSE IF cfg.freeze_first_row THEN <<"A", "2">> ELSE PyNone

\* lines 152-158: the entries of freeze_pane_per_sheet, in order, each
\* overriding the cell at the 0-based position sheet_index of the list
RECURSIVE ApplyFreezePanes(_, _)
ApplyFreezePanes(entries, cells) ==
  IF entries = <<>> THEN cells
  ELSE LET idx == Head(entries).sheet_index
           cell == Strip(Head(entries).cell)
       IN ApplyFreezePanes(Tail(entries),
            IF 0 <= idx /\ idx < Len(cells) /\ cell # <<>>
            THEN [cells EXCEPT ![idx + 1] = cell] ELSE cells)

\* lines 146-158: freeze_cell_per_sheet for the sheets of the given file indices
FreezeCells(cfg, indices) ==
  ApplyFreezePanes(cfg.freeze_pane_per_sheet,
    [j \in 1..Len(indices) |->
       LET cell == Strip(GetSheetOptions(cfg, indices[j]).freeze_cell)
       IN IF cell # <<>> THEN cell ELSE DefaultFreeze(cfg)])

\* lines 115-173: the sheets of the files with output "xlsx" are passed to
\* write_xlsx with the formats and the freeze cells of their files (an empty
\* column format and the format without a number format stand for {}, which
\* write_xlsx reads as it reads None); without such a sheet main returns
Assemble ==
  /\ mpc = "assemble"
  /\ LET sheets == XlsxSheets(results, to_process)
     IN IF sheets = <<>>
        THEN /\ mpc' = "returned"
             /\ UNCHANGED <<sheets_data, column_formats, default_formats, wpc, freeze_cell_per_sheet>>
        ELSE LET sheet_file_indices == SheetFileIndices(to_process)
             IN /\ sheets_data' = sheets
                /\ column_formats' = [j \in 1..Len(sheets) |->
                      GetSheetOptions(config, sheet_file_indices[j]).column_format]
                /\ default_formats' = [j \in 1..Len(sheets) |->
                      GetSheetOptions(config, sheet_file_indices[j]).default_column_format]
                /\ freeze_cell_per_sheet' = FreezeCells(config, sheet_file_indices)
                /\ wpc' = "collect"
                /\ mpc' = "write_xlsx"
  /\ UNCHANGED <<all_strings, unique, styles, sheet_xmls, out_file, excel_col>>
  /\ UNCHANGED <<to_process, max_workers, started, running, slots, results, failing, config, out_dir>>
  /\ UNCHANGED flattener

NextMain ==
  \/ Prepare
  \/ PoolStart
  \/ PoolFinish
  \/ PoolTaskFails
  \/ StarmapReturns
  \/ LoopStep
  \/ LoopStepFails
  \/ LoopEnds
  \/ Assemble

\* the files of config.files found in the input folder, in configuration
\* order: the strictly increasing sequences over 1..MaxFiles
FileLists ==
  { s \in UNION {[1..n -> 1..MaxFiles] : n \in 0..MaxFiles} :
      \A j \in 1..(Len(s) - 1) : s[j] < s[j + 1] }

\* main has read the configuration and listed the files
InitMain ==
  /\ FlattenerIdle
  /\ WriterIdle
  /\ mpc = "start"
  /\ to_process \in FileLists
  /\ max_workers = 1
  /\ started = {} /\ running = {} /\ slots = <<>> /\ results = <<>>
  /\ failing \in SUBSET (1..MaxFiles)
  /\ config = Config([idx \in 1..MaxFiles |-> FileName(<<>>, <<"f">> \o NatToStr(idx), <<".", "j", "s", "o", "n">>)],
                     <<>>, <<>>, TRUE, <<>>)
  /\ out_dir = {} /\ freeze_cell_per_sheet = <<>>

SpecMain == InitMain /\ [][NextMain]_vars

\* C20: on the pool path and on the loop path the i-th collected result
\* belongs to the i-th file of to_process, and when write_xlsx is invoked or
\* the workbook is being assembled every file has its result in the list and
\* no worker is running.
C20_OrderedJoin ==
  /\ \A i \in 1..Len(results) : results[i] = ResultOf(to_process[i])
  /\ (wpc # "idle" \/ mpc \in {"assemble", "write_xlsx"}) =>
       /\ Len(results) = Len(to_process)
       /\ running = {}
       /\ started \in {{}, 1..Len(to_process)}

\* write_xlsx was invoked after a pool run of three files in which the
\* workers finished in another order than the files were listed
C20_Witness ==
  /\ wpc = "collect"
  /\ mpc = "write_xlsx"
  /\ max_workers >= 2
  /\ Len(to_process) = 3
  /\ \E k \in 1..Len(slots) : slots[k].i # k
  /\ sheets_data = <<ResultOf(1), ResultOf(3)>>

--------------------------------------------------------------------------
(* main.py: a whole run, write_xlsx included                               *)

\* lines 160-175: write_xlsx returns and main returns, or its exception
\* leaves main
AfterWrite ==
  /\ mpc = "write_xlsx"
  /\ Ended
  /\ mpc' = IF wpc = "returned" THEN "returned" ELSE "write_failed"
  /\ UNCHANGED <<to_process, max_workers, started, running, slots, results, failing, config, freeze_cell_per_sheet, out_dir>>
  /\ UNCHANGED <<flattener, writer>>

NextRun ==
  \/ Prepare
  \/ PoolStart
  \/ PoolFinish
  \/ PoolTaskFails
  \/ StarmapReturns
  \/ LoopStep
  \/ LoopStepFails
  \/ LoopEnds
  \/ Assemble
  \/ CollectStrings
  \/ BuildStyles
  \/ StartDimension
  \/ ExcelColStep
  \/ MakeWorksheet
  \/ OpenZip
  \/ WriteEntry
  \/ WriteEntryFails
  \/ CloseZip
  \/ AfterWrite

SpecRun == InitMain /\ [][NextRun]_vars

\* the processing of some file of to_process raises
SomeFileFails == \E i \in 1..Len(to_process) : to_process[i] \in failing

\* C21: when the processing of a file raises, on the pool path or on the
\* loop path, main never reaches the assembly, write_xlsx is never invoked,
\* nothing is written to the container's path, and main does not return
\* normally.
C21_FatalFailure ==
  SomeFileFails =>
    /\ mpc \in {"start", "pool", "loop", "failed"}
    /\ WriterIdle

\* main has ended with the exception of the second of three files, on the
\* pool path after another worker had reported its result
C21_Witness ==
  /\ mpc = "failed"
  /\ max_workers >= 2
  /\ to_process = <<1, 2, 3>>
  /\ failing = {2}
  /\ slots # <<>>
  /\ WriterIdle

--------------------------------------------------------------------------
(* Termination of write_xlsx                                               *)

MaxColumns == 28

\* the column names c1, c2, ...
ColumnNames(n) == [j \in 1..n |-> <<"c">> \o NatToStr(j)]

\* the sheets of the roots [] and {} and of a filter that matches no column
\* (no columns), and sheets of 1, 2 and MaxColumns columns
TermSheets ==
  { Sheet(<<"E">>, <<>>, <<>>),
    Sheet(<<"O">>, << EmptyDict >>, <<>>),
    Sheet(<<"F">>, << Obj1(KeyA, One) >>, <<>>),
    Sheet(<<"S">>, << Obj1(KeyA, One) >>, <<KeyA>>),
    Sheet(<<"T">>, << Obj2(KeyA, JStr(<<"a", "b", "c">>), KeyB, JNum(42)), Obj1(KeyA, JNull) >>, <<KeyA, KeyB>>),
    Sheet(<<"W">>, <<>>, ColumnNames(MaxColumns)) }

InitTerm ==
  /\ FlattenerIdle
  /\ RunnerIdle
  /\ sheets_data \in {<<s>> : s \in TermSheets} \union {<<s, t>> : s \in TermSheets, t \in TermSheets}
  /\ column_formats = [j \in 1..Len(sheets_data) |-> <<>>]
  /\ default_formats = [j \in 1..Len(sheets_data) |-> NoFormat]
  /\ wpc = "collect"
  /\ all_strings = <<>> /\ unique = <<>> /\ styles = NoStyles
  /\ sheet_xmls = <<>> /\ out_file = Untouched
  /\ excel_col = NoCall

\* write_xlsx runs in one thread: a step that can be taken is taken
SpecTerm == InitTerm /\ [][NextXlsx]_vars /\ WF_vars(NextXlsx)

\* C22 (as stated): write_xlsx terminates for every finite list of sheets,
\* a sheet with an empty column list included: every call returns or raises.
C22_AsStated == <>Ended


--------------------------------------------------------------------------
(* The output paths of the per-file jobs                                   *)

\* file names a configuration may list: two files of the input folder, and
\* a file of a subfolder that has the stem of the first
ConfigNames ==
  { FileName(<<>>, <<"f", "1">>, <<".", "j", "s", "o", "n">>),
    FileName(<<>>, <<"f", "2">>, <<".", "j", "s", "o", "n">>),
    FileName(<<"s", "u", "b", "/">>, <<"f", "1">>, <<".", "j", "s", "o", "n">>) }

\* lines 75-81: the entries of file_names that are files of the input
\* folder, each with its index, in order
RECURSIVE Existing(_, _, _)
Existing(files, present, idx) ==
  IF idx > Len(files) THEN <<>>
  ELSE (IF files[idx] \in present THEN <<idx>> ELSE <<>>) \o Existing(files, present, idx + 1)

\* main has read a configuration of MaxFiles entries, which may name a file
\* more than once, and has listed the files that exist
InitCsv ==
  /\ FlattenerIdle
  /\ WriterIdle
  /\ mpc = "start"
  /\ config \in {Config(f, <<>>, <<>>, TRUE, <<>>) : f \in [1..MaxFiles -> ConfigNames]}
  /\ \E present \in SUBSET ConfigNames : to_process = Existing(config.files, present, 1)
  /\ max_workers = 1
  /\ started = {} /\ running = {} /\ slots = <<>> /\ results = <<>>
  /\ failing \in SUBSET (1..MaxFiles)
  /\ out_dir = {} /\ freeze_cell_per_sheet = <<>>

SpecCsv == InitCsv /\ [][NextRun]_vars

\* the job of task i writes a CSV file
WritesCsv(i) == "csv" \in OutputOf(to_process[i])

\* C23 (as stated): no two jobs that run in the pool at the same time write
\* the same path, whatever the file list of the configuration is, and the
\* combined container is written by the assembly step only, after the jobs.
C23_AsStated ==
  /\ \A i, j \in running :
       i # j /\ WritesCsv(i) /\ WritesCsv(j) => CsvPath(to_process[i]) # CsvPath(to_process[j])
  /\ out_file # Untouched => mpc \in {"write_xlsx", "returned", "write_failed"} /\ running = {}

--------------------------------------------------------------------------
(* C24                                                                     *)

\* the row's only value is an array with at least one object among its elements
HasObjectArrayRow(row) ==
  /\ row.tag = "obj" /\ Len(row.pairs) = 1
  /\ OnlyValue(row).tag = "arr"
  /\ \E j \in 1..Len(OnlyValue(row).items) : OnlyValue(row).items[j].tag = "obj"

\* the columns of the objects of the array at the normalised path P:
\* "P - Kn - (i)" for every scalar value of a key K of the object at
\* position i whose normalised name Kn no other key of the object shares
ExplodedInto(flat, P, items) ==
  \A i \in 1..Len(items) :
    items[i].tag = "obj" =>
      \A j \in 1..Len(items[i].pairs) :
        LET K == items[i].pairs[j][1]
            v == items[i].pairs[j][2]
            Kn == NormKey(K)
            col == IF P # <<>>
                   THEN P \o Sep3 \o Kn \o Sep3 \o IndexText(i)
                   ELSE Kn \o Sep3 \o IndexText(i)
            alone == \A h \in 1..Len(items[i].pairs) :
                       h # j => NormKey(items[i].pairs[h][1]) # Kn
        IN (IsScalarOrNone(v) /\ alone) =>
             HasKey(flat, col) /\ DictGet(flat, col) = CellOf(v)

\* C24 (as stated): an array with at least one object among its elements is
\* exploded into the indexed columns of its objects, also when other
\* elements are not objects, and no cell holds the array as one text.
C24_AsStated ==
  PlainFlatten =>
    \A r \in 1..Len(all_flat) :
      HasObjectArrayRow(rows_raw[r]) =>
        /\ ~HasKey(all_flat[r], NormName(OnlyPath(rows_raw[r])))
        /\ ExplodedInto(all_flat[r], NormName(OnlyPath(rows_raw[r])), OnlyValue(rows_raw[r]).items)

--------------------------------------------------------------------------
(* C25                                                                     *)

\* the name the key k takes in a column under the separator sep is k itself
PlainKey(k, sep) == KeyPart(k, sep) = k /\ k # <<>>

\* C25 (as stated): under every configured separator sep, the scalar value
\* of key K of the i-th object of an array at the top-level key P is in the
\* column P sep K sep (i), and the sort key of the default order takes the
\* first segment of every column name, split at sep, as its group.
C25_AsStated ==
  /\ \A r \in 1..Len(all_flat) :
       ( /\ IsObjectArrayRow(rows_raw[r])
         /\ Len(OnlyPath(rows_raw[r])) = 1
         /\ PlainKey(OnlyPath(rows_raw[r])[1], path_sep) ) =>
         LET P == OnlyPath(rows_raw[r])[1]
             items == OnlyValue(rows_raw[r]).items
         IN \A i \in 1..Len(items) : \A j \in 1..Len(items[i].pairs) :
              LET K == items[i].pairs[j][1]
                  v == items[i].pairs[j][2]
              IN IsScalarOrNone(v) /\ PlainKey(K, path_sep) =>
                   HasKey(all_flat[r], P \o path_sep \o K \o path_sep \o IndexText(i))
  /\ \A c \in 1..Len(columns) :
       ColumnSortKey(columns[c])[1] = FirstSegment(columns[c], path_sep)

--------------------------------------------------------------------------
(* C26                                                                     *)

\* the key name of the object par is visited: flatten_row visits every key
\* of the row, and below the row the object branch visits the keys it does
\* not skip
Visited(par, name) ==
  \/ par.at = <<>>
  \/ ~SkipInPathObject(exclude_keys_in_path, NormName(par.at),
                       NormName(par.at \o <<name>>), name)

\* the containers of a row that are visited, with their prefixes: the
\* values of the keys of the objects that hold sibling containers
ContainersOf(row) ==
  UNION { {[Q |-> NormName(par.at \o <<par.obj.pairs[j][1]>>), B |-> par.obj.pairs[j][2]] :
             j \in {h \in 1..Len(par.obj.pairs) :
                      /\ IsContainer(par.obj.pairs[h][2])
                      /\ Visited(par, par.obj.pairs[h][1])}} :
          par \in SiblingParents(row) }

\* key k of the object at prefix Q was kept: its scalar has its column
KeptInObject(flat, Q, k) == HasKey(flat, Q \o Sep3 \o k)

\* key k of element i of the array at prefix Q was kept
KeptInArray(flat, Q, k, i) == HasKey(flat, Q \o Sep3 \o k \o Sep3 \o IndexText(i))

\* C26 (as stated): for the scoped rules of a run, every prefix Q and every
\* key k holding a scalar, k is skipped or kept by one decision that depends
\* on the rules, Q and k only, the same for a key of an object at Q and for
\* a key of an element of an array of objects at Q.
C26_AsStated ==
  \A r \in 1..Len(all_flat) : \A c \in ContainersOf(rows_raw[r]) :
    IF IsDict(c.B)
    THEN \A k \in DictKeys(c.B) :
           IsScalarOrNone(DictGet(c.B, k)) =>
             (KeptInObject(all_flat[r], c.Q, k) <=> ~SkipInPathArray(exclude_keys_in_path, c.Q, k))
    ELSE \A i \in 1..Len(c.B.items) : \A k \in DictKeys(c.B.items[i]) :
           IsScalarOrNone(DictGet(c.B.items[i], k)) =>
             (KeptInArray(all_flat[r], c.Q, k, i) <=> ~SkipInPathArray(exclude_keys_in_path, c.Q, k))

--------------------------------------------------------------------------
(* C27                                                                     *)

\* the cells of the columns forced to the integer or the date format
ForcedCells ==
  { p \in UNION {{i} \X (1..Len(sheets_data[i].rows)) \X (1..Len(sheets_data[i].columns)) :
                   i \in 1..Len(sheets_data)} :
      NumberFormatOf(column_formats[p[1]], default_formats[p[1]],
                     sheets_data[p[1]].columns[p[3]]) \in {"integer", "date"} }

\* make_worksheet_xml raised: write_xlsx ended before the container was opened
WorksheetFailed == wpc = "raised" /\ out_file = Untouched

\* C27 (as stated): whatever the values of a column forced to the integer
\* or the date format are, building the worksheets raises no error, and
\* each cell of such a column is written as a number or as the generic cell
\* of its value.
C27_AsStated ==
  /\ ~WorksheetFailed
  /\ \A p \in ForcedCells :
       Built(p) =>
         \/ CellAt(p).t = "n"
         \/ CellAt(p) = PlainCell(unique, ValueAt(p), styles.data)

--------------------------------------------------------------------------
(* C28                                                                     *)

\* the serial number a spreadsheet gives a date from 1900-01-01 on: day 1 is
\* 1900-01-01, and the 29 February 1900 that never was is counted as day 60
SpreadsheetSerial(y, m, d) ==
  LET days == Ordinal(y, m, d) - Ordinal(1899, 12, 31)
  IN IF Ordinal(y, m, d) >= Ordinal(1900, 3, 1) THEN days + 1 ELSE days

\* C28 (as stated): for every date from 1900-01-01 on, the number written
\* into a date cell is the spreadsheet serial of the date (1900-01-01 is 1,
\* 1900-02-28 is 59, 1900-03-01 is 61).
C28_AsStated ==
  LET ymd == SheetDate
      serial == SpreadsheetSerial(ymd[1], ymd[2], ymd[3])
  IN ymd[1] >= 1900 /\ sheet_xmls # <<>> =>
       /\ ToDateValue(JStr(IsoSpelling(ymd[1], ymd[2], ymd[3]))) = FloatOfInt(serial)
       /\ sheet_xmls[1].rows[1][1] = Cell("n", NatToStr(serial), styles.date)

--------------------------------------------------------------------------
(* C29                                                                     *)

\* the row's only value is an array whose elements are all scalars or null
IsScalarArrayRow(row) ==
  /\ row.tag = "obj" /\ Len(row.pairs) = 1
  /\ OnlyValue(row).tag = "arr"
  /\ \A j \in 1..Len(OnlyValue(row).items) : IsScalarOrNone(OnlyValue(row).items[j])

\* the text of a scalar by the typing rules of the cells: null is the empty
\* text, a boolean "true" or "false", a number its digits, a string itself
TextOfScalar(v) ==
  CASE v.tag = "null" -> <<>>
    [] v.tag = "bool" -> (IF v.b THEN <<"t", "r", "u", "e">> ELSE <<"f", "a", "l", "s", "e">>)
    [] v.tag = "num" -> IntToStr(v.n)
    [] v.tag = "str" -> v.s

\* C29 (as stated): an array of scalars and nulls at the path P gives exactly
\* one cell, at P, holding the texts of its elements by the typing rules of
\* the cells, joined with ", " in their order; the empty array gives the
\* empty cell.
C29_AsStated ==
  PlainFlatten =>
    \A r \in 1..Len(all_flat) :
      IsScalarArrayRow(rows_raw[r]) =>
        LET P == NormName(OnlyPath(rows_raw[r]))
            items == OnlyValue(rows_raw[r]).items
        IN /\ DictKeys(all_flat[r]) = {P}
           /\ DictGet(all_flat[r], P) =
                JStr(Join(<<",", " ">>, [i \in 1..Len(items) |-> TextOfScalar(items[i])]))

--------------------------------------------------------------------------
(* C30                                                                     *)

\* the files of the configuration, all in the input folder or not
SheetFiles == [idx \in 1..MaxFiles |-> FileName(<<>>, <<"f">> \o NatToStr(idx), <<".", "j", "s", "o", "n">>)]

\* xlsx.sheets: no entry, or one entry per file, each with formats and a
\* freeze cell of its own (the last entry has no freeze cell)
SheetsOptions ==
  { <<>>,
    [idx \in 1..MaxFiles |->
       IF idx = 1 THEN SheetOptions(<< <<KeyA, "integer">> >>, NoFormat, <<"B", "2">>)
       ELSE IF idx = 2 THEN SheetOptions(<<>>, Format("integer", TRUE, FALSE), <<"B", "3">>)
       ELSE IF idx = MaxFiles THEN SheetOptions(<< <<KeyA, "date">> >>, Format("none", FALSE, TRUE), <<>>)
       ELSE SheetOptions(<< <<KeyA, "text">> >>, NoFormat, <<"B", "4">>)] }

\* xlsx.freeze_pane_per_sheet: no entry, an entry for the sheet 1 (counted
\* from 0), entries for the sheets 0 and 2
FreezePanes ==
  { <<>>,
    << [sheet_index |-> 1, cell |-> <<"C", "3">>] >>,
    << [sheet_index |-> 0, cell |-> <<" ", "D", "4", " ">>], [sheet_index |-> 2, cell |-> <<"E", "5">>] >> }

\* main has read a configuration with sheet options and has listed the
\* files that exist
InitSheets ==
  /\ FlattenerIdle
  /\ WriterIdle
  /\ mpc = "start"
  /\ \E sheets \in SheetsOptions, first_row \in BOOLEAN, panes \in FreezePanes :
       config = Config(SheetFiles, sheets, <<>>, first_row, panes)
  /\ to_process \in FileLists
  /\ max_workers = 1
  /\ started = {} /\ running = {} /\ slots = <<>> /\ results = <<>>
  /\ failing \in {{}, {MaxFiles}}
  /\ out_dir = {} /\ freeze_cell_per_sheet = <<>>

SpecSheets == InitSheets /\ [][NextMain]_vars

\* the freeze cell of the file with index idx: the cell of the last entry of
\* freeze_pane_per_sheet that names idx (counted from 0), else the cell of
\* the sheet options of idx, else the default
FreezeOfFile(cfg, idx) ==
  LET hits == {e \in 1..Len(cfg.freeze_pane_per_sheet) :
                 /\ cfg.freeze_pane_per_sheet[e].sheet_index + 1 = idx
                 /\ Strip(cfg.freeze_pane_per_sheet[e].cell) # <<>>}
      own == Strip(GetSheetOptions(cfg, idx).freeze_cell)
  IN IF hits # {}
     THEN Strip(cfg.freeze_pane_per_sheet[CHOOSE e \in hits : \A h \in hits : h <= e].cell)
     ELSE IF own # <<>> THEN own ELSE DefaultFreeze(cfg)

\* C30 (as stated): when write_xlsx is called, the lists of column formats,
\* default formats and freeze cells have one entry per sheet, and entry j is
\* the one of the configuration file index of the file that produced sheet
\* j, also when files are missing or are not written to the workbook.
C30_AsStated ==
  mpc = "write_xlsx" =>
    LET indices == SheetFileIndices(to_process)
    IN /\ Len(indices) = Len(sheets_data)
       /\ Len(column_formats) = Len(sheets_data)
       /\ Len(default_formats) = Len(sheets_data)
       /\ Len(freeze_cell_per_sheet) = Len(sheets_data)
       /\ \A j \in 1..Len(sheets_data) :
            /\ sheets_data[j] = ResultOf(indices[j])
            /\ column_formats[j] = GetSheetOptions(config, indices[j]).column_format
            /\ default_formats[j] = GetSheetOptions(config, indices[j]).default_column_format
            /\ freeze_cell_per_sheet[j] = FreezeOfFile(config, indices[j])
=============================================================================
